---- MODULE Spec2Model ----
(***************************************************************************)
(* A model of the dataflex-lsp language server: the workspace symbol index *)
(* (IndexFile, symbols diff, lookup tables), the line map of an open       *)
(* document, the document engine's edit path, the indexer's scheduling and *)
(* the server's request handlers.                                          *)
(***************************************************************************)
EXTENDS Integers, Sequences, FiniteSets, Bags, TLC

VARIABLES
    files,          \* Index.files: IndexFileRef -> IndexFile (index.rs:26)
    lookup_tables,  \* Index.lookup_tables (index.rs:27)
    updates,        \* the number of update_file calls made so far
    lines,          \* LineMap.lines: the text of each Line (line_map.rs:5-11)
    direct_text,    \* the client's text: the same edits spliced into one string
    panicked,       \* TRUE once an operation on the line map has panicked
    edits,          \* the number of replace_range calls made so far
    tree,           \* DataFlexDocument.tree (dataflex_document.rs:15)
    syntax_map,     \* DataFlexDocument.syntax_map (dataflex_document.rs:16)
    pending,        \* the changes edit_content has not yet taken up
    call,           \* the changes of the running edit_content call, and the
                    \* lines it started from
    trace,          \* what the running edit_content call has done so far
    pc,             \* where the did_change handler stands
    readers,        \* the queries holding a shared guard of the document
    observed,       \* what the last query saw
    committed,      \* the document as the last returned handler left it
    indexer_pc,     \* where the closure of start_indexing stands
    notified,       \* the transitions reported to the observer, in order
    task_state,     \* how far each per-file task has come
    task_symbols,   \* the symbols of the file a task was spawned with
    writer,         \* the task holding the write guard of the index
    index_readers,  \* the queries holding a read guard of the index
    index_observed, \* what the last query saw of the index, and where a
                    \* running one stands
    index_committed,\* the index as the last finished update_file left it
    open_files,     \* DataFlexLanguageServerInner.open_files
                    \* (language_server.rs:18)
    opening,        \* the document did_open has built and not yet inserted
    observer,       \* the IndexerObserver of the server: the state it was
                    \* told last and how far its callback has come
    response,       \* what the last query handler returned
    token_lines,    \* SyntaxMap.lines of the map under test (syntax_map.rs:9)
    sem_tokens      \* the last get_tokens_for_lines call and its result

index_vars == <<files, lookup_tables, updates>>
line_map_vars == <<lines, direct_text, panicked, edits>>
doc_vars == <<tree, syntax_map, pending, call, trace, pc, readers, observed,
              committed>>
indexer_vars == <<indexer_pc, notified, task_state, task_symbols, writer,
                  index_readers, index_observed, index_committed>>
server_vars == <<open_files, opening, observer, response>>
syntax_vars == <<token_lines, sem_tokens>>
vars == <<index_vars, line_map_vars, doc_vars, indexer_vars, server_vars,
          syntax_vars>>

(***************************************************************************)
(* Bounds of the index model and the universe of IndexFiles the indexer    *)
(* can hand to update_file.                                                *)
(***************************************************************************)
MaxClasses == 1
MaxMethods == 1
MaxProperties == 1
MaxUpdates == 4

FileRefs == {"test.pkg", "other.pkg"}
ClassNames == {"cA", "cB"}
MemberNames == {"foo", "bar"}

\* MethodKind (index_symbol.rs:30); the three method lookup tables.
MethodKinds == {"Procedure", "Function", "Set"}
\* The kinds index_parse_tree emits (indexer.rs:174, indexer.rs:200).
IndexedMethodKinds == {"Procedure", "Function"}

SeqsUpTo(S, n) == UNION {[1..k -> S] : k \in 0..n}

\* MethodSymbol as index_parse_tree builds it: symbol_path = [class, name].
MethodSymbol(class, name, kind) ==
    [variant |-> "Method", symbol_path |-> <<class, name>>, kind |-> kind]

PropertySymbol(class, name) ==
    [variant |-> "Property", symbol_path |-> <<class, name>>]

ClassSymbol(name, methods, properties) ==
    [variant |-> "Class", name |-> name, methods |-> methods,
     properties |-> properties]

ClassSymbolsNamed(c) ==
    { ClassSymbol(c, ms, ps) :
        ms \in SeqsUpTo({MethodSymbol(c, n, k) :
                            n \in MemberNames, k \in IndexedMethodKinds},
                        MaxMethods),
        ps \in SeqsUpTo({PropertySymbol(c, n) : n \in MemberNames},
                        MaxProperties) }

ClassSymbols == UNION {ClassSymbolsNamed(c) : c \in ClassNames}

\* IndexFile.symbols: the top-level symbols are the classes of the file.
SymbolLists == SeqsUpTo(ClassSymbols, MaxClasses)

IndexFile(path, symbols) == [path |-> path, symbols |-> symbols]

(***************************************************************************)
(* Symbol model (index_symbol.rs).                                         *)
(***************************************************************************)
Last(s) == s[Len(s)]

\* SymbolPath::name
PathName(path) == Last(path)

\* IndexSymbol::name
SymbolNameOf(symbol) ==
    IF symbol.variant = "Class" THEN symbol.name
    ELSE PathName(symbol.symbol_path)

\* IndexSymbol::is_matching
is_matching(a, b) ==
    CASE a.variant = "Class" /\ b.variant = "Class" -> a.name = b.name
      [] a.variant = "Method" /\ b.variant = "Method" ->
            a.symbol_path = b.symbol_path
      [] OTHER -> FALSE

\* ClassSymbol's members, methods first.
Members(class_symbol) == class_symbol.methods \o class_symbol.properties

\* The first element of a sequence with this name, or <<>> for None.
FindByName(symbols, name) ==
    LET hits == {i \in 1..Len(symbols) : SymbolNameOf(symbols[i]) = name}
    IN  IF hits = {} THEN <<>>
        ELSE <<symbols[CHOOSE i \in hits : \A j \in hits : i <= j]>>

\* IndexSymbol::child
SymbolChild(symbol, name) ==
    IF symbol.variant = "Class" THEN FindByName(Members(symbol), name)
    ELSE <<>>

\* IndexSymbol::resolve over the remaining path components.
RECURSIVE SymbolResolve(_, _)
SymbolResolve(symbol, rest) ==
    IF rest = <<>> THEN <<symbol>>
    ELSE LET c == SymbolChild(symbol, Head(rest))
         IN  IF c = <<>> THEN <<>> ELSE SymbolResolve(c[1], Tail(rest))

\* IndexFile::resolve: <<symbol>> for Some(symbol), <<>> for None.
FileResolve(index_file, path) ==
    IF path = <<>> THEN <<>>
    ELSE LET c == FindByName(index_file.symbols, Head(path))
         IN  IF c = <<>> THEN <<>> ELSE SymbolResolve(c[1], Tail(path))

(***************************************************************************)
(* Index file diff (symbols_diff.rs).                                      *)
(***************************************************************************)
\* The index of the last symbol of the list with this name: the entry the
\* fold of table.insert(symbol.name(), symbol) leaves in existing_symbols.
LastIndexOf(symbols, name) ==
    LET hits == {i \in 1..Len(symbols) : SymbolNameOf(symbols[i]) = name}
    IN  CHOOSE i \in hits : \A j \in hits : j <= i

\* existing_symbols.into_values(): the old symbols still in the table. The
\* table is held as its key set; the HashMap's iteration order is not
\* specified and the sequence is given in the order of the old list.
RECURSIVE IndicesInOrder(_)
IndicesInOrder(indices) ==
    IF indices = {} THEN <<>>
    ELSE LET i == CHOOSE x \in indices : \A y \in indices : x <= y
         IN  <<i>> \o IndicesInOrder(indices \ {i})

TableValues(old_symbols, keys) ==
    LET idx == IndicesInOrder({LastIndexOf(old_symbols, n) : n \in keys})
    IN  [k \in 1..Len(idx) |-> old_symbols[idx[k]]]

RECURSIVE diff_symbols(_, _)
RECURSIVE DiffFold(_, _, _, _, _)

\* The fold over new_symbols of diff_symbols: acc is the SymbolsDiff built so
\* far, existing the keys left in existing_symbols.
DiffFold(old_symbols, new_symbols, i, acc, existing) ==
    IF i > Len(new_symbols) THEN [diff |-> acc, existing |-> existing]
    ELSE
      LET symbol == new_symbols[i]
          name == SymbolNameOf(symbol)
      IN  IF name \in existing
          THEN LET existing_symbol ==
                       old_symbols[LastIndexOf(old_symbols, name)]
               IN  IF is_matching(existing_symbol, symbol)
                   THEN LET inner ==
                              IF existing_symbol.variant = "Class"
                                 /\ symbol.variant = "Class"
                              THEN LET method_diff ==
                                         diff_symbols(existing_symbol.methods,
                                                      symbol.methods)
                                       property_diff ==
                                         diff_symbols(existing_symbol.properties,
                                                      symbol.properties)
                                   IN  [added_symbols |->
                                          acc.added_symbols
                                            \o method_diff.added_symbols
                                            \o property_diff.added_symbols,
                                        removed_symbols |->
                                          acc.removed_symbols
                                            \o method_diff.removed_symbols
                                            \o property_diff.removed_symbols]
                              ELSE acc
                        IN  DiffFold(old_symbols, new_symbols, i + 1, inner,
                                     existing \ {name})
                   ELSE DiffFold(old_symbols, new_symbols, i + 1,
                                 [acc EXCEPT !.added_symbols =
                                                Append(@, symbol)],
                                 existing)
          ELSE DiffFold(old_symbols, new_symbols, i + 1,
                        [acc EXCEPT !.added_symbols = Append(@, symbol)],
                        existing)

diff_symbols(old_symbols, new_symbols) ==
    LET existing_symbols ==
            {SymbolNameOf(old_symbols[i]) : i \in 1..Len(old_symbols)}
        r == DiffFold(old_symbols, new_symbols, 1,
                      [added_symbols |-> <<>>, removed_symbols |-> <<>>],
                      existing_symbols)
    IN  [added_symbols |-> r.diff.added_symbols,
         removed_symbols |-> r.diff.removed_symbols
                               \o TableValues(old_symbols, r.existing)]

\* SymbolsDiff::diff_index_files; an absent file is <<>>, a present one
\* <<index_file>>.
diff_index_files(old_index_file, new_index_file) ==
    CASE old_index_file # <<>> /\ new_index_file # <<>> ->
            diff_symbols(old_index_file[1].symbols, new_index_file[1].symbols)
      [] old_index_file # <<>> /\ new_index_file = <<>> ->
            [added_symbols |-> <<>>,
             removed_symbols |-> old_index_file[1].symbols]
      [] old_index_file = <<>> /\ new_index_file # <<>> ->
            [added_symbols |-> new_index_file[1].symbols,
             removed_symbols |-> <<>>]
      [] OTHER -> [added_symbols |-> <<>>, removed_symbols |-> <<>>]

(***************************************************************************)
(* Lookup tables (lookup_tables.rs). A HashMap or MultiMap is a function   *)
(* whose domain is its key set; a MultiMap's value is the Vec of the key.  *)
(***************************************************************************)
EmptyMap == [n \in {} |-> <<>>]

\* LookupTables::new
NewLookupTables ==
    [class_lookup_table |-> EmptyMap,
     method_lookup_tables |-> [k \in MethodKinds |-> EmptyMap],
     property_lookup_table |-> EmptyMap]

IndexSymbolRef(file_ref, symbol_path) ==
    [file_ref |-> file_ref, symbol_path |-> symbol_path]

MapRemove(map, key) == [n \in DOMAIN map \ {key} |-> map[n]]

MapInsert(map, key, value) ==
    [n \in DOMAIN map \cup {key} |-> IF n = key THEN value ELSE map[n]]

\* MultiMap::insert: push to the key's Vec, made if absent.
MultiMapInsert(map, key, value) ==
    MapInsert(map, key,
              IF key \in DOMAIN map THEN Append(map[key], value)
              ELSE <<value>>)

\* A retain that leaves the key in the map when its Vec is empty.
MultiMapRetainKeepKey(map, name, path) ==
    IF name \notin DOMAIN map THEN map
    ELSE [map EXCEPT ![name] =
             SelectSeq(map[name], LAMBDA s : s.symbol_path # path)]

\* get_vec_mut(name), retain(|s| s.symbol_path != path), and remove(name)
\* if the Vec is then empty (lookup_tables.rs:68-78, 100-109, 112-121).
MultiMapRetainNot(map, name, path) ==
    IF name \notin DOMAIN map THEN map
    ELSE LET kept == SelectSeq(map[name], LAMBDA s : s.symbol_path # path)
         IN  IF kept = <<>> THEN MapRemove(map, name)
             ELSE [map EXCEPT ![name] = kept]

RemoveMethod(tables, method_symbol) ==
    [tables EXCEPT !.method_lookup_tables[method_symbol.kind] =
        MultiMapRetainNot(@, PathName(method_symbol.symbol_path),
                          method_symbol.symbol_path)]

RemoveProperty(tables, property_symbol) ==
    [tables EXCEPT !.property_lookup_table =
        MultiMapRetainNot(@, PathName(property_symbol.symbol_path),
                          property_symbol.symbol_path)]

AddMethod(tables, method_symbol, file_ref) ==
    [tables EXCEPT !.method_lookup_tables[method_symbol.kind] =
        MultiMapInsert(@, PathName(method_symbol.symbol_path),
                       IndexSymbolRef(file_ref, method_symbol.symbol_path))]

AddProperty(tables, property_symbol, file_ref) ==
    [tables EXCEPT !.property_lookup_table =
        MultiMapInsert(@, PathName(property_symbol.symbol_path),
                       IndexSymbolRef(file_ref, property_symbol.symbol_path))]

\* The loops over class_symbol.methods and class_symbol.properties: only a
\* Method of the first list and a Property of the second are handled.
RECURSIVE RemoveMethods(_, _)
RemoveMethods(tables, symbols) ==
    IF symbols = <<>> THEN tables
    ELSE RemoveMethods(IF Head(symbols).variant = "Method"
                       THEN RemoveMethod(tables, Head(symbols)) ELSE tables,
                       Tail(symbols))

RECURSIVE RemoveProperties(_, _)
RemoveProperties(tables, symbols) ==
    IF symbols = <<>> THEN tables
    ELSE RemoveProperties(IF Head(symbols).variant = "Property"
                          THEN RemoveProperty(tables, Head(symbols))
                          ELSE tables,
                          Tail(symbols))

RECURSIVE AddMethods(_, _, _)
AddMethods(tables, symbols, file_ref) ==
    IF symbols = <<>> THEN tables
    ELSE AddMethods(IF Head(symbols).variant = "Method"
                    THEN AddMethod(tables, Head(symbols), file_ref)
                    ELSE tables,
                    Tail(symbols), file_ref)

RECURSIVE AddProperties(_, _, _)
AddProperties(tables, symbols, file_ref) ==
    IF symbols = <<>> THEN tables
    ELSE AddProperties(IF Head(symbols).variant = "Property"
                       THEN AddProperty(tables, Head(symbols), file_ref)
                       ELSE tables,
                       Tail(symbols), file_ref)

\* One removed symbol (lookup_tables.rs:63-124).
RemoveSymbol(tables, symbol) ==
    CASE symbol.variant = "Class" ->
            LET t == RemoveProperties(RemoveMethods(tables, symbol.methods),
                                      symbol.properties)
            IN  [t EXCEPT !.class_lookup_table = MapRemove(@, symbol.name)]
      [] symbol.variant = "Method" -> RemoveMethod(tables, symbol)
      [] OTHER -> RemoveProperty(tables, symbol)

\* One added symbol (lookup_tables.rs:125-177).
AddSymbol(tables, symbol, file_ref) ==
    CASE symbol.variant = "Class" ->
            LET t == [tables EXCEPT !.class_lookup_table =
                        MapInsert(@, symbol.name,
                                  IndexSymbolRef(file_ref, <<symbol.name>>))]
            IN  AddProperties(AddMethods(t, symbol.methods, file_ref),
                              symbol.properties, file_ref)
      [] symbol.variant = "Method" -> AddMethod(tables, symbol, file_ref)
      [] OTHER -> AddProperty(tables, symbol, file_ref)

RECURSIVE RemoveSymbols(_, _)
RemoveSymbols(tables, symbols) ==
    IF symbols = <<>> THEN tables
    ELSE RemoveSymbols(RemoveSymbol(tables, Head(symbols)), Tail(symbols))

RECURSIVE AddSymbols(_, _, _)
AddSymbols(tables, symbols, file_ref) ==
    IF symbols = <<>> THEN tables
    ELSE AddSymbols(AddSymbol(tables, Head(symbols), file_ref),
                    Tail(symbols), file_ref)

\* LookupTables::update: the removed symbols first, then the added ones.
LookupTablesUpdate(tables, symbols_diff, file_ref) ==
    AddSymbols(RemoveSymbols(tables, symbols_diff.removed_symbols),
               symbols_diff.added_symbols, file_ref)

\* Index::all_known_methods and Index::all_known_properties: the keys of
\* the table.
all_known_methods(tables, kind) == DOMAIN tables.method_lookup_tables[kind]
all_known_properties(tables) == DOMAIN tables.property_lookup_table

\* LookupTables::is_known_method
is_known_method(tables, name) ==
    \E k \in MethodKinds :
        /\ name \in DOMAIN tables.method_lookup_tables[k]
        /\ tables.method_lookup_tables[k][name] # <<>>

(***************************************************************************)
(* LineMap (dataflex_document/line_map.rs).  A string is a sequence of     *)
(* one-byte characters; rows, columns and offsets count from 0 as in the   *)
(* source.  An operation that can panic (an index or a range out of        *)
(* bounds) returns [panic, lines].                                         *)
(***************************************************************************)
MaxInitLen == 3
MaxInsertLen == 2
MaxTextLen == 5
MaxEdits == 2

NL == "\n"
Alphabet == {"a", "b", NL}
Texts(n) == SeqsUpTo(Alphabet, n)

Point(row, column) == [row |-> row, column |-> column]

\* Line::has_line_ending
has_line_ending(text) == Len(text) > 0 /\ text[Len(text)] = NL

\* str::line_spans of the line_span crate, each span with its ending: the
\* text is cut after every line feed, and an empty text has no line.
RECURSIVE LineSpans(_)
LineSpans(text) ==
    IF text = <<>> THEN <<>>
    ELSE LET feeds == {i \in 1..Len(text) : text[i] = NL}
         IN  IF feeds = {} THEN <<text>>
             ELSE LET k == CHOOSE i \in feeds : \A j \in feeds : i <= j
                  IN  <<SubSeq(text, 1, k)>>
                          \o LineSpans(SubSeq(text, k + 1, Len(text)))

\* LineMap::new
LineMapNew(text) == LineSpans(text)

\* LineMap::text: the fold of the lines' texts.
RECURSIVE LineMapText(_)
LineMapText(ls) ==
    IF ls = <<>> THEN <<>> ELSE Head(ls) \o LineMapText(Tail(ls))

\* LineMap::line_count
line_count(ls) == Len(ls)

Ok(ls) == [panic |-> FALSE, lines |-> ls]
Panic(ls) == [panic |-> TRUE, lines |-> ls]

\* String::replace_range(from..to, with) on offsets inside the string.
StringReplaceRange(text, from, to, with) ==
    SubSeq(text, 1, from) \o with \o SubSeq(text, to + 1, Len(text))

\* Line::replace_range.  The range is from..to when bounded and from..
\* otherwise; line_span is <<>> for None and <<span>> for Some(span).  The
\* result is the line's new text and the tail the call returns (<<>> for
\* None); String::split_off and String::replace_range panic on a range that
\* does not lie in the text.
LineReplaceRange(text, from, to, bounded, line_span) ==
    LET end == IF bounded THEN to ELSE Len(text)
    IN  IF from > end \/ end > Len(text)
        THEN [panic |-> TRUE, text |-> text, tail |-> <<>>]
        ELSE IF line_span = <<>> \/ ~has_line_ending(line_span[1])
        THEN [panic |-> FALSE,
              text |-> StringReplaceRange(text, from, end,
                           IF line_span = <<>> THEN <<>> ELSE line_span[1]),
              tail |-> <<>>]
        ELSE LET split == SubSeq(text, end + 1, Len(text))
                 kept == IF bounded THEN SubSeq(text, 1, end) ELSE text
             IN  [panic |-> FALSE,
                  text |-> StringReplaceRange(kept, from, end, line_span[1]),
                  tail |-> IF bounded /\ split # <<>> THEN <<split>> ELSE <<>>]

\* LineMap::fixup_line_ending_if_needed
fixup_line_ending_if_needed(ls, line) ==
    IF line >= Len(ls) THEN Panic(ls)
    ELSE IF ~has_line_ending(ls[line + 1]) /\ (line + 1) < line_count(ls)
    THEN Ok(SubSeq(ls, 1, line) \o <<ls[line + 1] \o ls[line + 2]>>
                \o SubSeq(ls, line + 3, Len(ls)))
    ELSE Ok(ls)

\* Vec::insert(index, element)
VecInsert(ls, index, element) ==
    SubSeq(ls, 1, index) \o <<element>> \o SubSeq(ls, index + 1, Len(ls))

\* LineMap::splice_lines: the lines range_start..range_end are replaced by
\* the spans of it, and the tail is joined to, or inserted at, current_line.
splice_lines(ls, range_start, range_end, it, tail) ==
    IF range_start > range_end \/ range_end > Len(ls) THEN Panic(ls)
    ELSE LET spliced == SubSeq(ls, 1, range_start) \o it
                            \o SubSeq(ls, range_end + 1, Len(ls))
             inserted_lines == Len(it)
             current_line == IF inserted_lines > 0
                             THEN range_start + inserted_lines - 1
                             ELSE range_start
         IN  IF current_line >= Len(spliced) THEN Panic(spliced)
             ELSE IF ~has_line_ending(spliced[current_line + 1])
             THEN IF tail # <<>>
                  THEN Ok([spliced EXCEPT ![current_line + 1] = @ \o tail[1]])
                  ELSE fixup_line_ending_if_needed(spliced, current_line)
             ELSE IF tail # <<>>
             THEN Ok(VecInsert(spliced, current_line, tail[1]))
             ELSE Ok(spliced)

\* LineMap::replace_range
replace_range(ls, start, end, text) ==
    LET text_it == LineSpans(text)
        first == IF text_it = <<>> THEN <<>> ELSE <<Head(text_it)>>
        rest == IF text_it = <<>> THEN <<>> ELSE Tail(text_it)
    IN  IF start.row >= Len(ls) THEN Panic(ls)
        ELSE IF start.row = end.row
        THEN LET r == LineReplaceRange(ls[start.row + 1], start.column,
                                       end.column, TRUE, first)
                 edited == [ls EXCEPT ![start.row + 1] = r.text]
             IN  IF r.panic THEN Panic(ls)
                 ELSE IF first # <<>>
                 THEN splice_lines(edited, start.row + 1, start.row + 1,
                                   rest, r.tail)
                 ELSE Ok(edited)
        ELSE LET r == LineReplaceRange(ls[start.row + 1], start.column, 0,
                                       FALSE, first)
                 edited == [ls EXCEPT ![start.row + 1] = r.text]
             IN  IF r.panic \/ end.row >= Len(ls) THEN Panic(ls)
                 ELSE LET q == LineReplaceRange(edited[end.row + 1], 0,
                                                end.column, TRUE, <<>>)
                          cut == [edited EXCEPT ![end.row + 1] = q.text]
                      IN  IF q.panic THEN Panic(edited)
                          ELSE LET s == splice_lines(cut, start.row + 1,
                                                     end.row, rest, r.tail)
                               IN  IF s.panic THEN s
                                   ELSE fixup_line_ending_if_needed(
                                            s.lines, start.row)

\* LineMap::offset_at_point; lines[..point.row] panics past the last line.
RECURSIVE SumLen(_)
SumLen(ls) == IF ls = <<>> THEN 0 ELSE Len(Head(ls)) + SumLen(Tail(ls))

offset_at_point(ls, point) == SumLen(SubSeq(ls, 1, point.row)) + point.column

\* LineMap::point_at_offset
RECURSIVE PointScan(_, _, _, _)
PointScan(ls, offset, line_index, byte_index) ==
    IF line_index >= Len(ls) THEN Point(Len(ls), 0)
    ELSE LET line_len == Len(ls[line_index + 1])
         IN  IF byte_index + line_len > offset
             THEN Point(line_index, offset - byte_index)
             ELSE PointScan(ls, offset, line_index + 1, byte_index + line_len)

point_at_offset(ls, offset) == PointScan(ls, offset, 0, 0)

\* The state of the line map variables while another part runs.
LineMapIdle ==
    /\ lines = <<>>
    /\ direct_text = <<>>
    /\ panicked = FALSE
    /\ edits = 0

(***************************************************************************)
(* DataFlexDocument (dataflex_document.rs) and the handlers of the server  *)
(* that edit and query an open document (language_server.rs).              *)
(*                                                                         *)
(* The tree is kept as the bytes the parser read to build it, and the      *)
(* InputEdits applied to it since; the parser is taken to build, from an   *)
(* old tree and the text its callback supplies, the tree of that text.     *)
(***************************************************************************)
MaxDocInitLen == 2
MaxChanges == 2
MaxDocEdits == 2
MaxReaders == 1

None == <<>>
Some(x) == <<x>>

\* The texts of the changes a client sends.
ChangeTexts == Texts(1) \cup {<<NL, NL>>, <<"a", NL>>}

\* TextDocumentContentChangeEvent
RangedChange(start, end, text) ==
    [range |-> Some([start |-> start, end |-> end]), text |-> text]
FullChange(text) == [range |-> None, text |-> text]

\* The point the lexer stands at after it has read a chunk from a point.
RECURSIVE AdvancePoint(_, _)
AdvancePoint(point, chunk) ==
    IF chunk = <<>> THEN point
    ELSE AdvancePoint(IF Head(chunk) = NL
                      THEN Point(point.row + 1, 0)
                      ELSE Point(point.row, point.column + 1),
                      Tail(chunk))

\* The callback DataFlexDocument::update hands to the parser: the rest of
\* the line of a point, and nothing past the last line or the line's end.
TextCallback(ls, point) ==
    IF point.row < Len(ls) /\ point.column <= Len(ls[point.row + 1])
    THEN SubSeq(ls[point.row + 1], point.column + 1, Len(ls[point.row + 1]))
    ELSE <<>>

\* The bytes the parser reads through the callback: chunk after chunk from
\* point (0, 0), until a chunk is empty.
RECURSIVE ReadFrom(_, _)
ReadFrom(ls, point) ==
    LET chunk == TextCallback(ls, point)
    IN  IF chunk = <<>> THEN <<>>
        ELSE chunk \o ReadFrom(ls, AdvancePoint(point, chunk))

\* The tree of a text.
TreeOf(bytes) == [bytes |-> bytes, input_edits |-> <<>>]

\* Parser::parse_with_options(callback, old_tree, None) in update().
ParseWithOptions(ls, old_tree) == Some(TreeOf(ReadFrom(ls, Point(0, 0))))

\* Tree::edit
TreeEdit(tr, input_edit) ==
    IF tr = None THEN None
    ELSE Some([tr[1] EXCEPT !.input_edits = Append(@, input_edit)])

\* SyntaxMap::new(doc): the token lines generated from the document's tree.
SyntaxMapNew(tr) == Some([tokens_of |-> tr[1].bytes])

\* The body of the loop of edit_content for one change.
EditChange(ls, tr, change) ==
    IF change.range = None
    THEN [panic |-> FALSE, lines |-> LineMapNew(change.text), tree |-> None]
    ELSE LET start == change.range[1].start
             end == change.range[1].end
         IN  IF start.row > Len(ls) \/ end.row > Len(ls)
             THEN [panic |-> TRUE, lines |-> ls, tree |-> tr]
             ELSE LET start_byte == offset_at_point(ls, start)
                      old_end_byte == offset_at_point(ls, end)
                      new_end_byte == start_byte + Len(change.text)
                      r == replace_range(ls, start, end, change.text)
                      new_end_position == point_at_offset(r.lines, new_end_byte)
                      input_edit == [start_byte |-> start_byte,
                                     old_end_byte |-> old_end_byte,
                                     new_end_byte |-> new_end_byte,
                                     start_position |-> start,
                                     old_end_position |-> end,
                                     new_end_position |-> new_end_position]
                  IN  [panic |-> r.panic, lines |-> r.lines,
                       tree |-> IF r.panic THEN tr ELSE TreeEdit(tr, input_edit)]

\* A loop that takes the changes up from the back.
NextChangeFromBack(changes) == changes[Len(changes)]

\* The changes edit_content takes up next and leaves for later.
NextChange(changes) == Head(changes)
RestChanges(changes) == Tail(changes)

\* A read of the document that waits for no guard.
CanReadUnguarded(handler_pc) == handler_pc \in {"idle", "edit", "syntax"}

\* DashMap::get on the document's entry: a shared guard, granted while no
\* exclusive guard is held.
CanRead(handler_pc) == handler_pc = "idle"
\* DashMap::get_mut: an exclusive guard, granted while no guard is held.
CanWrite(handler_pc, guards) == handler_pc = "idle" /\ guards = 0

\* The state of the document variables while another part runs.
DocIdle ==
    /\ tree = None
    /\ syntax_map = None
    /\ pending = <<>>
    /\ call = [changes |-> <<>>, lines |-> <<>>]
    /\ trace = <<>>
    /\ pc = "idle"
    /\ readers = 0
    /\ observed = None
    /\ committed = None

(***************************************************************************)
(* The indexer (index/indexer.rs): the closure start_indexing hands to the *)
(* pool, the per-file tasks of its two scopes, and the index behind its    *)
(* readers-writer lock (index.rs:108-126).                                 *)
(***************************************************************************)
MaxIndexReaders == 1

Roots == {"system", "workspace"}
\* A file of a root folder; the index knows it by its file name alone.
IndexerTasks == [root : Roots, file : FileRefs]
\* What index_parse_tree extracts from the files met.
IndexerSymbolLists ==
    {<<>>,
     <<ClassSymbol("cA", <<MethodSymbol("cA", "foo", "Procedure")>>, <<>>)>>,
     <<ClassSymbol("cA", <<MethodSymbol("cA", "bar", "Function")>>, <<>>)>>}

\* The transitions start_indexing reports.
Transition(old_state, new_state) == [old |-> old_state, new |-> new_state]
\* A report with its arguments swapped.
FinalTransitionSwapped == Transition("Inactive", "InitialIndexing")
FirstTransition == Transition("Initializing", "InitialIndexing")
FinalTransition == Transition("InitialIndexing", "Inactive")

\* A task is finished when it has returned, with or without an update.
Finished(state) == state \in {"committed", "returned"}
Spawned(state) == state \in {"spawned", "writing", "committed", "returned"}

\* A scope that does not wait for its tasks.
ScopeNeverWaits(states, root) == TRUE
\* rayon::in_place_scope returns once every task spawned in it is done.
ScopeDrained(states, root) ==
    \A t \in IndexerTasks :
        (t.root = root /\ Spawned(states[t])) => Finished(states[t])

\* A read guard handed out whatever the writer does.
CanReadIndexUnguarded(w) == TRUE
\* RwLock::read: granted while no write guard is held.
CanReadIndex(w) == w = None
\* RwLock::write: granted while no guard is held.
CanWriteIndex(w, guards) == w = None /\ guards = 0

\* The state of the indexer variables while another part runs.
IndexerIdle ==
    /\ indexer_pc = "start"
    /\ notified = <<>>
    /\ task_state = [t \in IndexerTasks |-> "pending"]
    /\ task_symbols = [t \in IndexerTasks |-> <<>>]
    /\ writer = None
    /\ index_readers = 0
    /\ index_observed = None
    /\ index_committed = None

(***************************************************************************)
(* Syntax trees, as the documents hold them. A node is its kind, the field *)
(* of its parent it fills, its text (kept for a leaf), its range and its   *)
(* children; a cursor is the path of child indices from the root to its    *)
(* node.                                                                   *)
(***************************************************************************)
PointLt(p, q) == p.row < q.row \/ (p.row = q.row /\ p.column < q.column)

Leaf(kind, field, text, row, column) ==
    [kind |-> kind, field |-> field, text |-> text,
     start |-> Point(row, column), end |-> Point(row, column + Len(text)),
     children |-> <<>>]

Branch(kind, field, children) ==
    [kind |-> kind, field |-> field, text |-> "",
     start |-> children[1].start, end |-> children[Len(children)].end,
     children |-> children]

\* The leaves of one line of source: words <<kind, field, text>> set one
\* space apart from a column on.
RECURSIVE LineLeaves(_, _, _)
LineLeaves(row, column, words) ==
    IF words = <<>> THEN <<>>
    ELSE <<Leaf(Head(words)[1], Head(words)[2], Head(words)[3], row, column)>>
             \o LineLeaves(row, column + Len(Head(words)[3]) + 1, Tail(words))

\* A statement of one line.
Statement(kind, row, column, words) ==
    Branch(kind, "", LineLeaves(row, column, words))

\* Object o is a cA / Procedure p / Send foo 1 / End_Procedure / End_Object
DocObject ==
    [line_count |-> 5,
     tree |-> Branch("source_file", "", <<
        Branch("object_definition", "", <<
            Statement("object_header", 0, 0,
                      <<<<"keyword", "", "Object">>,
                        <<"identifier", "name", "o">>,
                        <<"keyword", "", "is">>, <<"keyword", "", "a">>,
                        <<"identifier", "superclass", "cA">>>>),
            Branch("procedure_definition", "", <<
                Statement("procedure_header", 1, 4,
                          <<<<"keyword", "", "Procedure">>,
                            <<"identifier", "name", "p">>>>),
                Statement("send_statement", 2, 8,
                          <<<<"keyword", "", "Send">>,
                            <<"identifier", "name", "foo">>,
                            <<"number", "", "1">>>>),
                Statement("procedure_footer", 3, 4,
                          <<<<"keyword", "", "End_Procedure">>>>)>>),
            Statement("object_footer", 4, 0,
                      <<<<"keyword", "", "End_Object">>>>)>>)>>)]

\* Class cA is a cB / Get foo / End_Class
DocClass ==
    [line_count |-> 3,
     tree |-> Branch("source_file", "", <<
        Branch("class_definition", "", <<
            Statement("class_header", 0, 0,
                      <<<<"keyword", "", "Class">>,
                        <<"identifier", "name", "cA">>,
                        <<"keyword", "", "is">>, <<"keyword", "", "a">>,
                        <<"identifier", "superclass", "cB">>>>),
            Statement("get_statement", 1, 0,
                      <<<<"keyword", "", "Get">>,
                        <<"identifier", "name", "foo">>>>),
            Statement("class_footer", 2, 0,
                      <<<<"keyword", "", "End_Class">>>>)>>)>>)]

\* object o IS A / Set foo / Send foo of x, the object left open and its
\* class not yet typed.
DocOpen ==
    [line_count |-> 3,
     tree |-> Branch("source_file", "", <<
        Branch("object_definition", "", <<
            Statement("object_header", 0, 0,
                      <<<<"keyword", "", "object">>,
                        <<"identifier", "name", "o">>,
                        <<"keyword", "", "IS">>, <<"keyword", "", "A">>>>),
            Statement("set_statement", 1, 0,
                      <<<<"keyword", "", "Set">>,
                        <<"identifier", "name", "foo">>>>),
            Statement("send_statement", 2, 0,
                      <<<<"keyword", "", "Send">>,
                        <<"identifier", "name", "foo">>,
                        <<"keyword", "", "of">>,
                        <<"identifier", "receiver", "x">>>>)>>)>>)]

\* An empty line, then Object o is a, the last line of its document.
DocBare ==
    [line_count |-> 2,
     tree |-> Branch("source_file", "", <<
        Branch("object_definition", "", <<
            Statement("object_header", 1, 0,
                      <<<<"keyword", "", "Object">>,
                        <<"identifier", "name", "o">>,
                        <<"keyword", "", "is">>,
                        <<"keyword", "", "a">>>>)>>)>>)]

\* Object o is cA / Send foo: the header lacks its "a".
DocBroken ==
    [line_count |-> 2,
     tree |-> Branch("source_file", "", <<
        Branch("object_definition", "", <<
            Statement("object_header", 0, 0,
                      <<<<"keyword", "", "Object">>,
                        <<"identifier", "name", "o">>,
                        <<"keyword", "", "is">>,
                        <<"identifier", "superclass", "cA">>>>),
            Statement("send_statement", 1, 0,
                      <<<<"keyword", "", "Send">>,
                        <<"identifier", "name", "foo">>>>)>>)>>)]

\* The documents a client opens.
Docs == {DocObject, DocClass, DocOpen, DocBare, DocBroken}

\* TreeCursor::node
RECURSIVE NodeAt(_, _)
NodeAt(node, cursor) ==
    IF cursor = <<>> THEN node
    ELSE NodeAt(node.children[Head(cursor)], Tail(cursor))

\* The outcome of a cursor move: whether it moved, and where it stands.
Moved(cursor) == [ok |-> TRUE, cursor |-> cursor]
Stayed(cursor) == [ok |-> FALSE, cursor |-> cursor]

\* TreeCursor::goto_parent
goto_parent(cursor) ==
    IF cursor = <<>> THEN Stayed(cursor)
    ELSE Moved(SubSeq(cursor, 1, Len(cursor) - 1))

\* TreeCursor::goto_next_sibling
goto_next_sibling(root, cursor) ==
    IF cursor = <<>> THEN Stayed(cursor)
    ELSE LET parent == goto_parent(cursor).cursor
         IN  IF Last(cursor) < Len(NodeAt(root, parent).children)
             THEN Moved(Append(parent, Last(cursor) + 1))
             ELSE Stayed(cursor)

\* TreeCursor::goto_first_child_for_point: the first child that reaches
\* beyond the point.
goto_first_child_for_point(root, cursor, point) ==
    LET children == NodeAt(root, cursor).children
        beyond == {i \in 1..Len(children) : PointLt(point, children[i].end)}
    IN  IF beyond = {} THEN Stayed(cursor)
        ELSE Moved(Append(cursor, CHOOSE i \in beyond : \A j \in beyond : i <= j))

\* TreeCursorExt::goto_first_leaf_node_for_point
RECURSIVE goto_first_leaf_node_for_point(_, _, _)
goto_first_leaf_node_for_point(root, cursor, point) ==
    LET child == goto_first_child_for_point(root, cursor, point)
    IN  IF ~child.ok THEN Stayed(cursor)
        ELSE Moved(goto_first_leaf_node_for_point(root, child.cursor,
                                                  point).cursor)

\* TreeCursorExt::goto_next_node: the next sibling, or that of the nearest
\* ancestor that has one; the cursor is reset if there is none.
RECURSIVE NextOfAncestor(_, _)
NextOfAncestor(root, cursor) ==
    IF ~goto_parent(cursor).ok THEN Stayed(cursor)
    ELSE LET sibling == goto_next_sibling(root, goto_parent(cursor).cursor)
         IN  IF sibling.ok THEN sibling
             ELSE NextOfAncestor(root, goto_parent(cursor).cursor)

\* goto_next_node without reset_to: with no node left, the cursor is where
\* the walk up the parents ended.
goto_next_node_unreset(root, cursor) ==
    IF goto_next_sibling(root, cursor).ok THEN goto_next_sibling(root, cursor)
    ELSE IF NextOfAncestor(root, cursor).ok THEN NextOfAncestor(root, cursor)
    ELSE Stayed(<<>>)
goto_next_node(root, cursor) ==
    IF goto_next_sibling(root, cursor).ok THEN goto_next_sibling(root, cursor)
    ELSE IF NextOfAncestor(root, cursor).ok THEN NextOfAncestor(root, cursor)
    ELSE Stayed(cursor)

\* TreeCursorExt::goto_next_node_if
goto_next_node_if(root, cursor, pred(_)) ==
    LET next == goto_next_node(root, cursor)
    IN  IF next.ok /\ pred(NodeAt(root, next.cursor)) THEN next
        ELSE Stayed(cursor)

\* TreeCursorExt::goto_enclosing_node_kind
RECURSIVE goto_enclosing_node_kind(_, _, _)
goto_enclosing_node_kind(root, cursor, kinds) ==
    IF ~goto_parent(cursor).ok THEN Stayed(cursor)
    ELSE LET parent == goto_parent(cursor).cursor
         IN  IF NodeAt(root, parent).kind \in kinds THEN Moved(parent)
             ELSE LET up == goto_enclosing_node_kind(root, parent, kinds)
                  IN  IF up.ok THEN up ELSE Stayed(cursor)

\* str::to_lowercase and eq_ignore_ascii_case over the keywords met.
to_lowercase(text) ==
    CASE text = "Object" -> "object"
      [] text = "Send" -> "send"
      [] text = "Get" -> "get"
      [] text = "Set" -> "set"
      [] text = "IS" -> "is"
      [] text = "A" -> "a"
      [] OTHER -> text

goto_next_identifier_before_position(root, cursor, position) ==
    goto_next_node_if(root, cursor,
        LAMBDA n : n.kind = "identifier" /\ PointLt(n.end, position))

goto_next_keyword_before_position(root, cursor, keyword, position) ==
    goto_next_node_if(root, cursor,
        LAMBDA n : /\ n.kind = "keyword"
                   /\ PointLt(n.end, position)
                   /\ to_lowercase(n.text) = to_lowercase(keyword))

goto_next_identifier_enclosing_position(root, cursor, position) ==
    goto_next_node_if(root, cursor,
        LAMBDA n : /\ n.kind = "identifier"
                   /\ ~PointLt(position, n.start)
                   /\ ~PointLt(n.end, position))

(***************************************************************************)
(* The document context classifier (document_context.rs; code_completion.rs *)
(* holds the same code as CodeCompletionContext).                          *)
(***************************************************************************)
ClassReference == [context |-> "ClassReference"]
MethodReference(kind) == [context |-> "MethodReference", kind |-> kind]

\* The end of every context_for_*: the identifier around the position, or
\* a next node that starts after it, or no next node.
InNameSlot(root, cursor, position) ==
    IF goto_next_identifier_enclosing_position(root, cursor, position).ok
    THEN TRUE
    ELSE LET next == goto_next_node(root, cursor)
         IN  IF next.ok
             THEN PointLt(position, NodeAt(root, next.cursor).start)
             ELSE TRUE

\* An object header that asks for no "is" before its class.
context_for_object_lenient(root, cursor, position) ==
    LET name == goto_next_identifier_before_position(root, cursor, position)
        a == goto_next_keyword_before_position(root, name.cursor, "a",
                                               position)
    IN  IF ~name.ok \/ ~a.ok THEN None
        ELSE IF InNameSlot(root, a.cursor, position) THEN Some(ClassReference)
        ELSE None

\* DocumentContext::context_for_object
context_for_object(root, cursor, position) ==
    LET name == goto_next_identifier_before_position(root, cursor, position)
        is == goto_next_keyword_before_position(root, name.cursor, "is",
                                                position)
        a == goto_next_keyword_before_position(root, is.cursor, "a", position)
    IN  IF ~name.ok THEN None
        ELSE IF ~is.ok THEN None
        ELSE IF ~a.ok THEN None
        ELSE IF InNameSlot(root, a.cursor, position) THEN Some(ClassReference)
        ELSE None

\* A method context that answers on the keyword itself as well.
context_for_method_on_keyword(root, cursor, position, kind) ==
    IF InNameSlot(root, cursor, position) THEN Some(MethodReference(kind))
    ELSE None

\* DocumentContext::context_for_send, context_for_get and context_for_set,
\* which differ in the kind they answer with.
context_for_method(root, cursor, position, kind) ==
    IF ~PointLt(NodeAt(root, cursor).end, position) THEN None
    ELSE IF InNameSlot(root, cursor, position)
    THEN Some(MethodReference(kind))
    ELSE None

\* DocumentContext::context
context(tree_of_doc, position) ==
    IF tree_of_doc = None THEN None
    ELSE LET root == tree_of_doc[1]
             cursor == goto_first_leaf_node_for_point(
                           root, <<>>, Point(position.row, 0)).cursor
             node == NodeAt(root, cursor)
             text == to_lowercase(node.text)
         IN  CASE node.kind = "keyword" /\ text = "object" ->
                    context_for_object(root, cursor, position)
               [] node.kind = "keyword" /\ text = "send" ->
                    context_for_method(root, cursor, position, "Procedure")
               [] node.kind = "keyword" /\ text = "get" ->
                    context_for_method(root, cursor, position, "Function")
               [] node.kind = "keyword" /\ text = "set" ->
                    context_for_method(root, cursor, position, "Set")
               [] OTHER -> None

(***************************************************************************)
(* The syntax token map (syntax_map.rs).                                   *)
(***************************************************************************)
MaxTokenLines == 3
MaxLineTokens == 2

\* The captures of the highlights query over a tree, in document order:
\* every keyword, the superclass of a header, the name of a method.
RECURSIVE Captures(_, _)
RECURSIVE CapturesOfChildren(_, _)
CapturesOfChildren(children, parent_kind) ==
    IF children = <<>> THEN <<>>
    ELSE Captures(Head(children), parent_kind)
             \o CapturesOfChildren(Tail(children), parent_kind)

Captures(node, parent_kind) ==
    IF node.children # <<>> THEN CapturesOfChildren(node.children, node.kind)
    ELSE IF node.kind = "keyword"
    THEN <<[name |-> "keyword", node |-> node]>>
    ELSE IF node.field = "superclass"
    THEN <<[name |-> "entity.other.inherited-class", node |-> node]>>
    ELSE IF node.field = "name"
              /\ parent_kind \in {"procedure_header", "send_statement",
                                  "get_statement", "set_statement"}
    THEN <<[name |-> "entity.name.function", node |-> node]>>
    ELSE <<>>

\* Index::is_known_class
is_known_class(tables, name) == name \in DOMAIN tables.class_lookup_table

SyntaxToken(start, end, prev_pos, kind) ==
    [delta_start |-> IF start.row = prev_pos.row
                     THEN start.column - prev_pos.column
                     ELSE start.column,
     length |-> end.column - start.column,
     kind |-> kind]

\* A token for every capture, whatever the index knows.
TokenOfCaptureUnfiltered(capture, prev_pos, tables) ==
    LET start == capture.node.start
        end == capture.node.end
    IN  CASE capture.name = "keyword" -> Some(SyntaxToken(start, end, prev_pos, 0))
          [] capture.name = "entity.other.inherited-class" ->
                Some(SyntaxToken(start, end, prev_pos, 1))
          [] capture.name = "entity.name.function" ->
                Some(SyntaxToken(start, end, prev_pos, 2))
          [] OTHER -> None

\* The match of generate_lines on the capture's name: the token of the
\* capture, if it is to have one.
TokenOfCapture(capture, prev_pos, tables) ==
    LET start == capture.node.start
        end == capture.node.end
        name == capture.node.text
    IN  CASE capture.name = "keyword" -> Some(SyntaxToken(start, end, prev_pos, 0))
          [] capture.name = "entity.other.inherited-class" ->
                IF is_known_class(tables, name)
                THEN Some(SyntaxToken(start, end, prev_pos, 1)) ELSE None
          [] capture.name = "entity.name.function" ->
                IF is_known_method(tables, name)
                THEN Some(SyntaxToken(start, end, prev_pos, 2)) ELSE None
          [] OTHER -> None

\* The fold of generate_lines over the captures.
RECURSIVE GenerateFold(_, _, _, _)
GenerateFold(captures, token_rows, prev_pos, tables) ==
    IF captures = <<>> THEN token_rows
    ELSE LET capture == Head(captures)
             start == capture.node.start
             token == IF start.row = capture.node.end.row
                      THEN TokenOfCapture(capture, prev_pos, tables)
                      ELSE None
         IN  IF token = None
             THEN GenerateFold(Tail(captures), token_rows, prev_pos, tables)
             ELSE GenerateFold(Tail(captures),
                               [token_rows EXCEPT ![start.row + 1] =
                                    Append(@, token[1])],
                               start, tables)

\* SyntaxMap::generate_lines. The code takes the read guard of the index
\* anew for every capture; a build is taken here against the tables of one
\* moment, that of its step.
generate_lines(root, count, tables) ==
    GenerateFold(Captures(root, ""), [row \in 1..count |-> <<>>],
                 Point(0, 0), tables)

\* The first index past the word that holds index i of the bytes.
RECURSIVE WordEnd(_, _)
WordEnd(bytes, i) ==
    IF i <= Len(bytes) /\ bytes[i] # NL THEN WordEnd(bytes, i + 1) ELSE i

\* The captures of the highlights query over the tree of some bytes, from
\* index i on: every word of a line is a keyword, placed where the parser
\* stood when it read it.
RECURSIVE WordCaptures(_, _)
WordCaptures(bytes, i) ==
    IF i > Len(bytes) THEN <<>>
    ELSE IF bytes[i] = NL THEN WordCaptures(bytes, i + 1)
    ELSE LET e == WordEnd(bytes, i)
         IN  <<[name |-> "keyword",
                node |-> [start |-> AdvancePoint(Point(0, 0),
                                                 SubSeq(bytes, 1, i - 1)),
                          end |-> AdvancePoint(Point(0, 0),
                                               SubSeq(bytes, 1, e - 1)),
                          text |-> SubSeq(bytes, i, e - 1)]]>>
                 \o WordCaptures(bytes, e)

\* A vector resized to one entry less than the line map has lines.
generate_lines_short(ls, tr) ==
    LET captures == WordCaptures(tr[1].bytes, 1)
        count == line_count(ls) - 1
    IN  IF \E k \in 1..Len(captures) :
               /\ captures[k].node.start.row = captures[k].node.end.row
               /\ captures[k].node.start.row >= count
        THEN [panic |-> TRUE, lines |-> <<>>]
        ELSE [panic |-> FALSE,
              lines |-> GenerateFold(captures, [row \in 1..count |-> <<>>],
                                     Point(0, 0), NewLookupTables)]
\* SyntaxMap::generate_lines for a document held as line map and tree: the
\* vector is resized to line_count() entries and lines[start.row] is
\* indexed for every token, which panics past the end of the vector.
generate_lines_indexed(ls, tr) ==
    LET captures == WordCaptures(tr[1].bytes, 1)
        count == line_count(ls)
    IN  IF \E k \in 1..Len(captures) :
               /\ captures[k].node.start.row = captures[k].node.end.row
               /\ captures[k].node.start.row >= count
        THEN [panic |-> TRUE, lines |-> <<>>]
        ELSE [panic |-> FALSE,
              lines |-> GenerateFold(captures, [row \in 1..count |-> <<>>],
                                     Point(0, 0), NewLookupTables)]

\* The last line with tokens before a line, where the first one is looked
\* for.
PrevRowFromFront(token_rows, range_start) ==
    LET filled == {i \in 0..(range_start - 1) : token_rows[i + 1] # <<>>}
    IN  IF filled = {} THEN 0
        ELSE CHOOSE i \in filled : \A j \in filled : i <= j

\* The prev_row of get_tokens_for_lines: the last line with tokens before
\* the range, or 0.
PrevRow(token_rows, range_start) ==
    LET filled == {i \in 0..(range_start - 1) : token_rows[i + 1] # <<>>}
    IN  IF filled = {} THEN 0
        ELSE CHOOSE i \in filled : \A j \in filled : j <= i

\* The fold of get_tokens_for_lines over the lines of the range and the
\* tokens of each.
RECURSIVE SemanticFold(_, _, _, _, _)
SemanticFold(token_rows, row, range_end, tokens_left, acc) ==
    IF row >= range_end THEN acc.sem_tokens
    ELSE IF tokens_left = <<>>
    THEN SemanticFold(token_rows, row + 1, range_end,
                      IF row + 1 < range_end THEN token_rows[row + 2]
                      ELSE <<>>,
                      acc)
    ELSE SemanticFold(token_rows, row, range_end, Tail(tokens_left),
                      [sem_tokens |->
                           Append(acc.sem_tokens,
                                  [delta_line |-> row - acc.prev_row,
                                   delta_start |-> Head(tokens_left).delta_start,
                                   length |-> Head(tokens_left).length,
                                   token_type |-> Head(tokens_left).kind,
                                   token_modifiers_bitset |-> 0]),
                       prev_row |-> row])

\* SyntaxMap::get_tokens_for_lines over the lines range_start..range_end.
get_tokens_for_lines(token_rows, range_start, range_end) ==
    SemanticFold(token_rows, range_start, range_end,
                 IF range_start < range_end THEN token_rows[range_start + 1]
                 ELSE <<>>,
                 [sem_tokens |-> <<>>,
                  prev_row |-> PrevRow(token_rows, range_start)])

\* SyntaxMap::get_all_tokens
get_all_tokens(token_rows) ==
    get_tokens_for_lines(token_rows, 0, Len(token_rows))

\* The state of the token map variables while another part runs.
SyntaxMapIdle ==
    /\ token_lines = <<>>
    /\ sem_tokens = None

(***************************************************************************)
(* The server's open documents and the observer it hands to the indexer    *)
(* (language_server.rs). The handlers of the server run one at a time; the *)
(* closure of start_indexing and its tasks run beside them.                *)
(***************************************************************************)
MaxServerUpdates == 2

Urls == {"a.src", "b.src"}

\* A rebuild that leaves the token map as it is.
update_syntax_map_skipped(doc, tables) == doc

\* DataFlexDocument::update_syntax_map; built_with keeps the lookup tables
\* the map was generated against.
update_syntax_map(doc, tables) ==
    [doc EXCEPT !.syntax_map = Some(generate_lines(doc.tree[1], doc.line_count,
                                                   tables)),
                !.built_with = tables]

\* DataFlexDocument::update: the parse gives the tree of the text, then
\* update_syntax_map.
DataFlexDocumentUpdate(doc, tables) == update_syntax_map(doc, tables)

\* DataFlexDocument::new
DataFlexDocumentNew(d, tables) ==
    DataFlexDocumentUpdate([tree |-> Some(d.tree), line_count |-> d.line_count,
                            syntax_map |-> None, built_with |-> tables],
                           tables)

\* The documents opened while the index fills, and what the tasks of the
\* indexer find in the files.
ServerDocs == {DocObject, DocOpen}
ServerSymbolLists ==
    {<<ClassSymbol("cA", <<MethodSymbol("cA", "foo", "Procedure")>>, <<>>)>>,
     <<ClassSymbol("cA", <<>>, <<>>)>>}

\* An observer that rebuilds on the first report.
ObserverMatchesFirst(old_state, new_state) ==
    old_state = "Initializing" /\ new_state = "InitialIndexing"

\* The arm of state_transition that acts.
ObserverMatches(old_state, new_state) ==
    old_state = "InitialIndexing" /\ new_state = "Inactive"

OpenUrls(of) == {u \in Urls : of[u] # None}

ObserverNew ==
    [state |-> "Initializing", pc |-> "idle", visited |-> {},
     open_then |-> {}, refresh |-> "none"]

\* The state of the server variables while another part runs.
ServerIdle ==
    /\ open_files = [u \in Urls |-> None]
    /\ opening = None
    /\ observer = ObserverNew
    /\ response = None

(***************************************************************************)
(* The queries of a document: definition, completion, and the reference    *)
(* resolver (dataflex_document.rs, code_completion.rs,                     *)
(* reference_resolver.rs).                                                 *)
(***************************************************************************)
MaxQueryUpdates == 4

\* ClassSymbol with the superclass its header names.
ClassSymbolIsA(name, superclass, methods, properties) ==
    [variant |-> "Class", name |-> name, superclass |-> superclass,
     methods |-> methods, properties |-> properties]

\* What the indexer finds in each file while the queries run.
QuerySymbolLists(file_name) ==
    IF file_name = "test.pkg"
    THEN {<<ClassSymbolIsA("cA", "cB",
                           <<MethodSymbol("cA", "foo", "Procedure")>>, <<>>)>>,
          <<ClassSymbolIsA("cA", "cB",
                           <<MethodSymbol("cA", "foo", "Function")>>, <<>>)>>,
          <<ClassSymbolIsA("cA", "cB", <<>>, <<>>)>>}
    ELSE {<<ClassSymbolIsA("cB", "cBase",
                           <<MethodSymbol("cB", "foo", "Procedure")>>,
                           <<PropertySymbol("cB", "bar")>>)>>}

\* The leaves of a tree.
RECURSIVE LeavesOf(_)
LeavesOf(node) ==
    IF node.children = <<>> THEN {node}
    ELSE UNION {LeavesOf(node.children[i]) : i \in 1..Len(node.children)}

\* The points a client asks about: every column of every line of the
\* document up to one past the end of its text.
QueryPoints(d) ==
    UNION {LET ends == {n.end.column : n \in {m \in LeavesOf(d.tree) :
                                              m.end.row = row}}
               last == IF ends = {} THEN 0
                       ELSE CHOOSE c \in ends : \A c2 \in ends : c2 <= c
           IN  {Point(row, column) : column \in 0..(last + 1)} :
           row \in 0..(d.line_count - 1)}

\* Node::descendant_for_point_range(point, point): the smallest node around
\* the point. The text of a node with children is not kept: it is the text
\* of a whole statement and no name of the index.
RECURSIVE descendant_for_point_range(_, _)
descendant_for_point_range(node, point) ==
    LET reach == {i \in 1..Len(node.children) :
                     ~PointLt(node.children[i].end, point)}
    IN  IF reach = {} THEN node
        ELSE LET child == node.children[CHOOSE i \in reach :
                                            \A j \in reach : i <= j]
             IN  IF PointLt(point, child.start) THEN node
                 ELSE descendant_for_point_range(child, point)

\* IndexSymbolSnapshot
IndexSymbolSnapshot(path, symbol) == [path |-> path, symbol |-> symbol]

\* Index::find_symbol_ref for T = ClassSymbol
find_symbol_ref(fs, symbol_ref) ==
    IF symbol_ref.file_ref \notin DOMAIN fs THEN None
    ELSE LET index_file == fs[symbol_ref.file_ref]
             name == PathName(symbol_ref.symbol_path)
             hits == {i \in 1..Len(index_file.symbols) :
                         /\ SymbolNameOf(index_file.symbols[i]) = name
                         /\ index_file.symbols[i].variant = "Class"}
         IN  IF hits = {} THEN None
             ELSE Some(IndexSymbolSnapshot(
                      index_file.path,
                      index_file.symbols[CHOOSE i \in hits :
                                             \A j \in hits : i <= j]))

\* Index::find_class
find_class(fs, tables, name) ==
    IF name \in DOMAIN tables.class_lookup_table
    THEN find_symbol_ref(fs, tables.class_lookup_table[name])
    ELSE None

\* The lsp_types::Location of a symbol: the file of its snapshot and the
\* place of its declaration there, which the symbol's path stands for.
Location(snapshot) ==
    [uri |-> snapshot.path,
     declaration |-> IF snapshot.symbol.variant = "Class"
                     THEN <<snapshot.symbol.name>>
                     ELSE snapshot.symbol.symbol_path]

\* DataFlexDocument::find_definition
find_definition(tree_of_doc, position, fs, tables) ==
    IF tree_of_doc = None THEN None
    ELSE LET node == descendant_for_point_range(tree_of_doc[1], position)
             class_symbol == find_class(fs, tables, node.text)
         IN  IF class_symbol = None THEN None
             ELSE Some(Location(class_symbol[1]))

CompletionItem(label, kind) == [label |-> label, kind |-> kind]

\* The items of a Vec made from the keys of a map, each key once; the order
\* of the keys of a HashMap is not kept.
ItemsOfKeys(map, kind) == SetToBag({CompletionItem(n, kind) : n \in DOMAIN map})

\* CodeCompletion::class_completions
class_completions(tables) == ItemsOfKeys(tables.class_lookup_table, "Class")

\* Completions that offer the properties after Send as well.
method_completions_with_properties(tables, kind) ==
    ItemsOfKeys(tables.method_lookup_tables[kind], "Method")
        (+) ItemsOfKeys(tables.property_lookup_table, "Property")

\* CodeCompletion::method_completions
method_completions(tables, kind) ==
    IF kind = "Procedure"
    THEN ItemsOfKeys(tables.method_lookup_tables[kind], "Method")
    ELSE ItemsOfKeys(tables.method_lookup_tables[kind], "Method")
             (+) ItemsOfKeys(tables.property_lookup_table, "Property")

\* CodeCompletion::code_completion
code_completion(tree_of_doc, position, tables) ==
    LET c == context(tree_of_doc, position)
    IN  IF c = None THEN None
        ELSE IF c[1] = ClassReference THEN Some(class_completions(tables))
        ELSE Some(method_completions(tables, c[1].kind))

\* DataFlexDocument::symbol_at_position: the text of the leaf at the point.
symbol_at_position(tree_of_doc, position) ==
    IF tree_of_doc = None THEN None
    ELSE LET node == descendant_for_point_range(tree_of_doc[1], position)
         IN  IF node.children = <<>> THEN Some(node.text) ELSE None

\* SymbolPath::parent_name: the second-to-last component, if any.
parent_name(path) ==
    IF Len(path) >= 2 THEN Some(path[Len(path) - 1]) ELSE None

\* The find_class of the resolver: the reference the class lookup holds.
class_lookup(tables, name) ==
    IF name \in DOMAIN tables.class_lookup_table
    THEN Some(tables.class_lookup_table[name])
    ELSE None

\* Index::symbol_snapshot: the symbol a reference resolves to in its file.
symbol_snapshot(fs, symbol_ref) ==
    IF symbol_ref.file_ref \notin DOMAIN fs THEN None
    ELSE LET found == FileResolve(fs[symbol_ref.file_ref],
                                  symbol_ref.symbol_path)
         IN  IF found = <<>> THEN None
             ELSE Some(IndexSymbolSnapshot(fs[symbol_ref.file_ref].path,
                                           found[1]))

\* Index::find_members: the candidates of a name, from the method table of
\* the kind and, for Function and Set, from the property table.
find_members(tables, name, kind) ==
    LET of(map) == IF name \in DOMAIN map THEN map[name] ELSE <<>>
    IN  of(tables.method_lookup_tables[kind])
            \o (IF kind \in {"Function", "Set"}
                THEN of(tables.property_lookup_table) ELSE <<>>)

\* The class symbol a name resolves to through the class lookup.
ClassNamed(fs, tables, name) ==
    LET symbol_ref == class_lookup(tables, name)
        snapshot == IF symbol_ref = None THEN None
                    ELSE symbol_snapshot(fs, symbol_ref[1])
    IN  IF snapshot = None THEN None
        ELSE IF snapshot[1].symbol.variant = "Class"
        THEN Some(snapshot[1].symbol) ELSE None

\* Index::class_hierarchy: the class, then the class its superclass names
\* in the class lookup, and so on while the lookup answers; a class is met
\* once.
RECURSIVE HierarchyFrom(_, _, _, _)
HierarchyFrom(fs, tables, class, seen) ==
    LET super == IF class.superclass \in seen THEN None
                 ELSE ClassNamed(fs, tables, class.superclass)
    IN  IF super = None THEN <<class>>
        ELSE <<class>> \o HierarchyFrom(fs, tables, super[1],
                                        seen \cup {class.superclass})

class_hierarchy(fs, tables, class) ==
    HierarchyFrom(fs, tables, class, {class.name})

\* Node::child_by_field_name on a node of the tree.
child_by_field_name(node, field) ==
    LET hits == {i \in 1..Len(node.children) : node.children[i].field = field}
    IN  IF hits = {} THEN None
        ELSE Some(node.children[CHOOSE i \in hits : \A j \in hits : i <= j])

\* ReferenceResolver::resolve_call_receiver
resolve_call_receiver(root, position, fs, tables) ==
    LET leaf == goto_first_leaf_node_for_point(root, <<>>, position)
        method_call ==
            IF leaf.ok
            THEN goto_enclosing_node_kind(
                     root, leaf.cursor,
                     {"send_statement", "get_statement", "set_statement"})
            ELSE leaf
        field == child_by_field_name(NodeAt(root, method_call.cursor), "receiver")
        receiver == IF field = None THEN "self" ELSE field[1].text
        definition == goto_enclosing_node_kind(
                          root, method_call.cursor,
                          {"object_definition", "class_definition"})
        node == NodeAt(root, definition.cursor)
        header == IF node.children = <<>> THEN None ELSE Some(node.children[1])
        named == IF header = None THEN None
                 ELSE child_by_field_name(
                          header[1],
                          IF node.kind = "object_definition"
                          THEN "superclass" ELSE "name")
    IN  IF to_lowercase(receiver) # "self" THEN None
        ELSE IF ~definition.ok THEN None
        ELSE IF named = None THEN None
        ELSE ClassNamed(fs, tables, named[1].text)

\* The snapshots of a list of references, those that resolve.
RECURSIVE Snapshots(_, _)
Snapshots(fs, refs) ==
    IF refs = <<>> THEN <<>>
    ELSE LET snapshot == symbol_snapshot(fs, Head(refs))
         IN  (IF snapshot = None THEN <<>> ELSE <<snapshot[1]>>)
                 \o Snapshots(fs, Tail(refs))

\* The find_map of resolve_method_reference: the first candidate whose
\* parent is the first class of the hierarchy that has one.
RECURSIVE FirstMemberOf(_, _)
FirstMemberOf(classes, members) ==
    IF classes = <<>> THEN <<>>
    ELSE LET hits == {i \in 1..Len(members) :
                         parent_name(members[i].symbol_path)
                             = Some(Head(classes).name)}
         IN  IF hits = {} THEN FirstMemberOf(Tail(classes), members)
             ELSE <<members[CHOOSE i \in hits : \A j \in hits : i <= j]>>

\* A resolver that never asks for the receiver.
resolve_method_reference_unresolved(tree_of_doc, position, kind, fs, tables) ==
    LET name == symbol_at_position(tree_of_doc, position)
    IN  IF name = None THEN <<>>
        ELSE Snapshots(fs, find_members(tables, name[1], kind))

\* ReferenceResolver::resolve_method_reference
resolve_method_reference(tree_of_doc, position, kind, fs, tables) ==
    LET name == symbol_at_position(tree_of_doc, position)
        class == resolve_call_receiver(tree_of_doc[1], position, fs, tables)
    IN  IF name = None THEN <<>>
        ELSE IF class # None
        THEN Snapshots(fs, FirstMemberOf(
                               class_hierarchy(fs, tables, class[1]),
                               find_members(tables, name[1], kind)))
        ELSE Snapshots(fs, find_members(tables, name[1], kind))

\* ReferenceResolver::resolve_class_reference
resolve_class_reference(tree_of_doc, position, fs, tables) ==
    LET name == symbol_at_position(tree_of_doc, position)
        symbol_ref == IF name = None THEN None
                      ELSE class_lookup(tables, name[1])
    IN  IF symbol_ref = None THEN <<>>
        ELSE Snapshots(fs, <<symbol_ref[1]>>)

\* ReferenceResolver::resolve_reference
resolve_reference(tree_of_doc, position, fs, tables) ==
    LET c == context(tree_of_doc, position)
    IN  IF c = None THEN <<>>
        ELSE IF c[1] = ClassReference
        THEN resolve_class_reference(tree_of_doc, position, fs, tables)
        ELSE resolve_method_reference(tree_of_doc, position, c[1].kind, fs,
                                      tables)

(***************************************************************************)
(* The handlers of the server as the client calls them                     *)
(* (language_server.rs:155-244), a request for a document that is not open *)
(* and a parse that gives no tree included. A panic is not caught: serve() *)
(* runs the handlers on the task of main, and the process ends with it.    *)
(***************************************************************************)
MaxHandlerUpdates == 2

\* What Parser::parse_with_options hands back: the tree of the text, or
\* none.
ParserYields == {"tree", "none"}

\* What a handler leaves behind: the value it returned, or the panic that
\* ended it.
Returned(value) == [panic |-> FALSE, value |-> value]
Aborted == [panic |-> TRUE, value |-> None]

\* update_syntax_map as its caller meets it: SyntaxMap::new calls
\* generate_lines, which unwraps the tree of the document.
generate_lines_of(doc, tables) ==
    IF doc.tree = None
    THEN [panic |-> TRUE, doc |-> doc]
    ELSE [panic |-> FALSE, doc |-> update_syntax_map(doc, tables)]

\* DataFlexDocument::update with what the parser yields for the text d.
document_update(doc, d, yields, tables) ==
    generate_lines_of([doc EXCEPT !.tree = IF yields = "tree"
                                           THEN Some(d.tree) ELSE None],
                      tables)

\* DataFlexDocument::new for the text d.
document_new(d, yields, tables) ==
    document_update([tree |-> None, line_count |-> d.line_count, syntax_map |-> None,
            built_with |-> tables],
           d, yields, tables)

\* DataFlexDocument::edit_content with one change that has no range: the
\* line map is made anew from the text d, the tree dropped, then update().
edit_content(doc, d, yields, tables) ==
    document_update([doc EXCEPT !.line_count = d.line_count, !.tree = None],
           d, yields, tables)

\* DataFlexDocument::semantic_tokens_full
document_semantic_tokens_full(doc) ==
    IF doc.syntax_map = None THEN None
    ELSE Some(get_all_tokens(doc.syntax_map[1]))

\* The points a client asks about in these handlers: where a leaf of the
\* first line of the document starts, or the start of the text when the
\* uri has no document or the document no tree.
HandlerPoints(of, uri) ==
    IF of[uri] = None THEN {Point(0, 0)}
    ELSE IF of[uri][1].tree = None THEN {Point(0, 0)}
    ELSE {n.start : n \in {m \in LeavesOf(of[uri][1].tree[1]) :
                               m.start.row = 0}}

\* What a handler does to open_files and what it leaves behind.
Handled(of, outcome) == [open_files |-> of, outcome |-> outcome]

\* did_open: the document is built, then put under its uri.
did_open(of, uri, d, yields, tables) ==
    LET built == document_new(d, yields, tables)
    IN  IF built.panic THEN Handled(of, Aborted)
        ELSE Handled([of EXCEPT ![uri] = Some(built.doc)], Returned(None))

\* did_close: DashMap::remove, whether or not the uri has a document.
did_close(of, uri) == Handled([of EXCEPT ![uri] = None], Returned(None))

\* did_change: open_files.get_mut(uri).unwrap().edit_content(changes)
did_change(of, uri, d, yields, tables) ==
    IF of[uri] = None THEN Handled(of, Aborted)
    ELSE LET edited == edit_content(of[uri][1], d, yields, tables)
         IN  Handled([of EXCEPT ![uri] = Some(edited.doc)],
                     IF edited.panic THEN Aborted ELSE Returned(None))

\* semantic_tokens_full:
\* open_files.get(uri).unwrap().semantic_tokens_full().unwrap()
semantic_tokens_full(of, uri) ==
    IF of[uri] = None THEN Handled(of, Aborted)
    ELSE LET tokens == document_semantic_tokens_full(of[uri][1])
         IN  IF tokens = None THEN Handled(of, Aborted)
             ELSE Handled(of, Returned(Some(tokens[1])))

\* goto_definition: open_files.get(uri).unwrap().find_definition(position)
goto_definition(of, uri, position, fs, tables) ==
    IF of[uri] = None THEN Handled(of, Aborted)
    ELSE Handled(of, Returned(find_definition(of[uri][1].tree, position, fs,
                                              tables)))

\* completion: open_files.get(uri).unwrap().code_completion(position)
completion(of, uri, position, tables) ==
    IF of[uri] = None THEN Handled(of, Aborted)
    ELSE Handled(of, Returned(code_completion(of[uri][1].tree, position,
                                              tables)))

\* shutdown: Ok(()), and nothing else.
shutdown(of) == Handled(of, Returned(None))

\* A guard that outlives the statement that took it.
DropGuardNever(guards) == guards
\* The end of the statement that logs index.get().files.len(): the
\* temporary read guard is dropped.
DropGuard(guards) == guards - 1

(***************************************************************************)
(* Index (index.rs, indexer.rs:365-370).                                   *)
(***************************************************************************)
FileGet(fs, file_ref) == IF file_ref \in DOMAIN fs THEN <<fs[file_ref]>> ELSE <<>>

\* Index::update_file on the pair (files, lookup_tables): files.insert
\* returns the old IndexFile, which is diffed against the new one.
IndexUpdateFile(fs, tables, file_name, index_file) ==
    LET file_ref == file_name
        old_index_file == FileGet(fs, file_ref)
        new_files == MapInsert(fs, file_ref, index_file)
        symbols_diff == diff_index_files(old_index_file,
                                         FileGet(new_files, file_ref))
    IN  [files |-> new_files,
         lookup_tables |-> LookupTablesUpdate(tables, symbols_diff, file_ref)]

\* The state of the index variables while another part runs.
IndexIdle ==
    /\ files = EmptyMap
    /\ lookup_tables = NewLookupTables
    /\ updates = 0

\* Index::new
IndexInit ==
    /\ ServerIdle
    /\ SyntaxMapIdle
    /\ files = EmptyMap
    /\ lookup_tables = NewLookupTables
    /\ updates = 0
    /\ LineMapIdle
    /\ DocIdle
    /\ IndexerIdle

\* Indexer::index_parse_tree's commit: index.get_mut().update_file(..) with
\* the IndexFile extracted from one parse of the file.
update_file(file_name, symbols) ==
    LET r == IndexUpdateFile(files, lookup_tables, file_name,
                             IndexFile(file_name, symbols))
    IN  /\ files' = r.files
        /\ lookup_tables' = r.lookup_tables

UpdateFile ==
    /\ updates < MaxUpdates
    /\ \E f \in FileRefs, symbols \in SymbolLists : update_file(f, symbols)
    /\ updates' = updates + 1
    /\ UNCHANGED <<server_vars, syntax_vars, line_map_vars, doc_vars, indexer_vars>>

IndexNext == UpdateFile

SpecIndex == IndexInit /\ [][IndexNext]_vars

(***************************************************************************)
(* The index under files whose classes declare methods of one name: a      *)
(* Procedure and a Function called alike.                                  *)
(***************************************************************************)
MaxSameNameUpdates == 3

\* The methods a class of these files may declare, no symbol twice.
SameNameMethods ==
    {MethodSymbol("cA", "foo", "Procedure"),
     MethodSymbol("cA", "foo", "Function"),
     MethodSymbol("cA", "bar", "Procedure")}
SameNameMethodLists ==
    {ms \in SeqsUpTo(SameNameMethods, 2) :
        \A i, j \in 1..Len(ms) : ms[i] = ms[j] => i = j}
SameNameSymbolLists ==
    {<<ClassSymbol("cA", ms, <<>>)>> : ms \in SameNameMethodLists}

\* A task of the indexer commits its update_file for such a file.
UpdateFileSameNames ==
    /\ updates < MaxSameNameUpdates
    /\ \E f \in FileRefs, symbols \in SameNameSymbolLists :
          update_file(f, symbols)
    /\ updates' = updates + 1
    /\ UNCHANGED <<server_vars, syntax_vars, line_map_vars, doc_vars,
                   indexer_vars>>

SpecSameNames == IndexInit /\ [][UpdateFileSameNames]_vars

(***************************************************************************)
(* A line map under a sequence of replace_range calls, as the tests of     *)
(* line_map.rs drive it, next to the text the client holds.                *)
(***************************************************************************)
\* The rows of a text as an LSP client counts them: one more than its line
\* feeds, each without its ending.
RECURSIVE ClientRows(_)
ClientRows(text) ==
    LET feeds == {i \in 1..Len(text) : text[i] = NL}
    IN  IF feeds = {} THEN <<text>>
        ELSE LET k == CHOOSE i \in feeds : \A j \in feeds : i <= j
             IN  <<SubSeq(text, 1, k - 1)>>
                     \o ClientRows(SubSeq(text, k + 1, Len(text)))

\* The positions of a text: any column of any row, the end of the row
\* included.
InRangePoints(text) ==
    LET rows == ClientRows(text)
    IN  UNION {{Point(r - 1, c) : c \in 0..Len(rows[r])} : r \in 1..Len(rows)}

\* The byte offset of a position of the text.
RECURSIVE ClientOffset(_, _)
ClientOffset(rows, point) ==
    IF point.row = 0 THEN point.column
    ELSE Len(Head(rows)) + 1
             + ClientOffset(Tail(rows), Point(point.row - 1, point.column))

PointLeq(p, q) == p.row < q.row \/ (p.row = q.row /\ p.column <= q.column)

LineMapInit ==
    /\ ServerIdle
    /\ SyntaxMapIdle
    /\ \E text \in Texts(MaxInitLen) :
          /\ lines = LineMapNew(text)
          /\ direct_text = text
    /\ panicked = FALSE
    /\ edits = 0
    /\ IndexIdle
    /\ DocIdle
    /\ IndexerIdle

\* One call line_map.replace_range(start, end, text) with start <= end in
\* range; the client splices the same bytes into its text.
ReplaceRange ==
    /\ ~panicked
    /\ edits < MaxEdits
    /\ \E start \in InRangePoints(direct_text),
          end \in InRangePoints(direct_text),
          text \in Texts(MaxInsertLen) :
          LET rows == ClientRows(direct_text)
              from == ClientOffset(rows, start)
              to == ClientOffset(rows, end)
              r == replace_range(lines, start, end, text)
          IN  /\ PointLeq(start, end)
              /\ Len(direct_text) - (to - from) + Len(text) <= MaxTextLen
              /\ lines' = r.lines
              /\ panicked' = r.panic
              /\ direct_text' = StringReplaceRange(direct_text, from, to, text)
    /\ edits' = edits + 1
    /\ UNCHANGED <<server_vars, syntax_vars, index_vars, doc_vars, indexer_vars>>

LineMapNext == ReplaceRange

SpecLineMap == LineMapInit /\ [][LineMapNext]_vars

(***************************************************************************)
(* One open document under did_change notifications and queries.           *)
(***************************************************************************)
\* The changes a client may send for its text: a range of the text with
\* its replacement, or a whole new text.
ClientChanges(text) ==
    {RangedChange(s, e, t) : s \in InRangePoints(text),
                             e \in InRangePoints(text), t \in ChangeTexts}
    \cup {FullChange(t) : t \in ChangeTexts}

\* The client's text after a change.
ClientApply(text, change) ==
    IF change.range = None THEN change.text
    ELSE LET rows == ClientRows(text)
         IN  StringReplaceRange(text,
                                ClientOffset(rows, change.range[1].start),
                                ClientOffset(rows, change.range[1].end),
                                change.text)

ValidChange(text, change) ==
    /\ change.range # None
         => PointLeq(change.range[1].start, change.range[1].end)
    /\ Len(ClientApply(text, change)) <= MaxTextLen

\* The lists of at most n changes, each a change of the text the changes
\* before it have produced.
RECURSIVE ChangeLists(_, _)
ChangeLists(text, n) ==
    IF n = 0 THEN {<<>>}
    ELSE {<<>>} \cup
         UNION {{<<c>> \o rest : rest \in ChangeLists(ClientApply(text, c), n - 1)} :
                c \in {d \in ClientChanges(text) : ValidChange(text, d)}}

RECURSIVE ClientApplyAll(_, _)
ClientApplyAll(text, changes) ==
    IF changes = <<>> THEN text
    ELSE ClientApplyAll(ClientApply(text, Head(changes)), Tail(changes))

\* What a query can see of the document.
Snapshot(ls, tr, map) == [lines |-> ls, tree |-> tr, syntax_map |-> map]

\* did_open: DataFlexDocument::new(text, index) is inserted in open_files.
DocInit ==
    /\ ServerIdle
    /\ SyntaxMapIdle
    /\ \E text \in Texts(MaxDocInitLen) :
          LET tr == ParseWithOptions(LineMapNew(text), None)
          IN  /\ lines = LineMapNew(text)
              /\ direct_text = text
              /\ tree = tr
              /\ syntax_map = SyntaxMapNew(tr)
              /\ committed = Some(Snapshot(LineMapNew(text), tr, SyntaxMapNew(tr)))
    /\ panicked = FALSE
    /\ edits = 0
    /\ pending = <<>>
    /\ call = [changes |-> <<>>, lines |-> <<>>]
    /\ trace = <<>>
    /\ pc = "idle"
    /\ readers = 0
    /\ observed = None
    /\ IndexIdle
    /\ IndexerIdle

\* did_change takes the exclusive guard of the document and enters
\* edit_content with the changes of the notification.
DidChangeBegin ==
    /\ ~panicked
    /\ CanWrite(pc, readers)
    /\ \E changes \in ChangeLists(direct_text,
                                   IF MaxDocEdits - edits < MaxChanges
                                   THEN MaxDocEdits - edits ELSE MaxChanges) :
          /\ pending' = changes
          /\ call' = [changes |-> changes, lines |-> lines]
          /\ direct_text' = ClientApplyAll(direct_text, changes)
    /\ trace' = <<>>
    /\ pc' = "edit"
    /\ UNCHANGED <<server_vars, syntax_vars, lines, tree, syntax_map, panicked, edits, readers, observed,
                   committed, index_vars,
                   indexer_vars>>

\* edit_content: one turn of the loop over the changes.
ApplyChange ==
    /\ ~panicked
    /\ pc = "edit"
    /\ pending # <<>>
    /\ LET change == NextChange(pending)
           r == EditChange(lines, tree, change)
       IN  /\ lines' = r.lines
           /\ tree' = r.tree
           /\ panicked' = r.panic
           /\ trace' = Append(trace, [event |-> "change", change |-> Some(change)])
    /\ pending' = RestChanges(pending)
    /\ edits' = edits + 1
    /\ UNCHANGED <<server_vars, syntax_vars, direct_text, syntax_map, call, pc, readers, observed,
                   committed, index_vars,
                   indexer_vars>>

\* edit_content, after the loop: self.update() parses.
Update ==
    /\ ~panicked
    /\ pc = "edit"
    /\ pending = <<>>
    /\ tree' = ParseWithOptions(lines, tree)
    /\ trace' = Append(trace, [event |-> "parse", change |-> None])
    /\ pc' = "syntax"
    /\ UNCHANGED <<server_vars, syntax_vars, lines, direct_text, panicked, edits, syntax_map, pending,
                   call, readers, observed, committed, index_vars,
                   indexer_vars>>

\* update() ends with update_syntax_map(); edit_content and did_change
\* return and the guard is dropped.
UpdateSyntaxMap ==
    /\ ~panicked
    /\ pc = "syntax"
    /\ syntax_map' = SyntaxMapNew(tree)
    /\ panicked' = generate_lines_indexed(lines, tree).panic
    /\ trace' = Append(trace, [event |-> "rebuild", change |-> None])
    /\ pc' = "idle"
    /\ committed' = Some(Snapshot(lines, tree, syntax_map'))
    /\ UNCHANGED <<server_vars, syntax_vars, lines, direct_text, edits, tree, pending, call,
                   readers, observed, index_vars,
                   indexer_vars>>

\* semantic_tokens_full, goto_definition, completion: open_files.get(uri).
QueryBegin ==
    /\ ~panicked
    /\ readers < MaxReaders
    /\ CanRead(pc)
    /\ readers' = readers + 1
    /\ UNCHANGED <<server_vars, syntax_vars, line_map_vars, tree, syntax_map, pending, call, trace, pc,
                   observed, committed, index_vars,
                   indexer_vars>>

\* The query reads the document under its guard and drops the guard.
QueryRead ==
    /\ ~panicked
    /\ readers > 0
    /\ observed' = Some([seen |-> IF Some(Snapshot(lines, tree, syntax_map))
                                        = committed
                                   THEN "whole" ELSE "partial",
                          edits |-> edits])
    /\ readers' = readers - 1
    /\ UNCHANGED <<server_vars, syntax_vars, line_map_vars, tree, syntax_map, pending, call, trace, pc,
                   committed, index_vars,
                   indexer_vars>>

DocNext ==
    \/ DidChangeBegin
    \/ ApplyChange
    \/ Update
    \/ UpdateSyntaxMap
    \/ QueryBegin
    \/ QueryRead

SpecDoc == DocInit /\ [][DocNext]_vars

\* Indexer::new, before start_indexing.
IndexerInit ==
    /\ ServerIdle
    /\ SyntaxMapIdle
    /\ IndexIdle
    /\ LineMapIdle
    /\ DocIdle
    /\ indexer_pc = "start"
    /\ notified = <<>>
    /\ task_state = [t \in IndexerTasks |-> "pending"]
    /\ task_symbols = [t \in IndexerTasks |-> <<>>]
    /\ writer = None
    /\ index_readers = 0
    /\ index_observed = None
    /\ index_committed = Some([files |-> EmptyMap, lookup_tables |-> NewLookupTables])

\* The closure of start_indexing starts: the first report, then the system
\* paths if the configuration has any for the version.
StartIndexing ==
    /\ indexer_pc = "start"
    /\ notified' = Append(notified, FirstTransition)
    /\ \E system_paths \in BOOLEAN :
          indexer_pc' = IF system_paths THEN "system" ELSE "workspace"
    /\ UNCHANGED <<server_vars, syntax_vars, index_vars, line_map_vars, doc_vars, task_state,
                   task_symbols, writer, index_readers, index_observed,
                   index_committed>>

\* index_directory meets a file and index_file reads it: a file that is
\* read is handed to the scope as a task, another is passed over.
VisitFile(t) ==
    /\ indexer_pc = t.root
    /\ task_state[t] = "pending"
    /\ \E read \in BOOLEAN, symbols \in IndexerSymbolLists :
          /\ task_state' = [task_state EXCEPT ![t] = IF read THEN "spawned"
                                                     ELSE "unread"]
          /\ task_symbols' = [task_symbols EXCEPT ![t] = IF read THEN symbols
                                                         ELSE <<>>]
    /\ UNCHANGED <<server_vars, syntax_vars, index_vars, line_map_vars, doc_vars, indexer_pc, notified,
                   writer, index_readers, index_observed, index_committed>>

\* index_system_paths and index_workspace return when their scope does.
ScopeEnd ==
    /\ indexer_pc \in Roots
    /\ ScopeDrained(task_state, indexer_pc)
    /\ indexer_pc' = IF indexer_pc = "system" THEN "workspace" ELSE "notify"
    /\ UNCHANGED <<server_vars, syntax_vars, index_vars, line_map_vars, doc_vars, notified, task_state,
                   task_symbols, writer, index_readers, index_observed,
                   index_committed>>

\* The second report; the closure goes on to watch the workspace.
NotifyInactive ==
    /\ indexer_pc = "notify"
    /\ notified' = Append(notified, FinalTransition)
    /\ indexer_pc' = "watching"
    /\ UNCHANGED <<server_vars, syntax_vars, index_vars, line_map_vars, doc_vars, task_state,
                   task_symbols, writer, index_readers, index_observed,
                   index_committed>>

\* index_file_content or index_parse_tree returns early: the parser gives
\* no tree, or the file name is not valid UTF-8.
TaskReturn(t) ==
    /\ task_state[t] = "spawned"
    /\ task_state' = [task_state EXCEPT ![t] = "returned"]
    /\ UNCHANGED <<server_vars, syntax_vars, index_vars, line_map_vars, doc_vars, indexer_pc, notified,
                   task_symbols, writer, index_readers, index_observed,
                   index_committed>>

\* index.get_mut().update_file(..), first half: the write guard is taken
\* and files.insert puts the new IndexFile in place of the old.
TaskInsert(t) ==
    /\ task_state[t] = "spawned"
    /\ CanWriteIndex(writer, index_readers)
    /\ writer' = Some([task |-> t, old_index_file |-> FileGet(files, t.file)])
    /\ files' = MapInsert(files, t.file, IndexFile(t.file, task_symbols[t]))
    /\ task_state' = [task_state EXCEPT ![t] = "writing"]
    /\ UNCHANGED <<server_vars, syntax_vars, lookup_tables, updates, line_map_vars, doc_vars, indexer_pc,
                   notified, task_symbols, index_readers, index_observed,
                   index_committed>>

\* update_file, second half: the diff of the old and the new IndexFile is
\* applied to the lookup tables and the write guard is dropped.
TaskUpdateTables(t) ==
    /\ writer # None
    /\ writer[1].task = t
    /\ lookup_tables' =
           LookupTablesUpdate(lookup_tables,
                              diff_index_files(writer[1].old_index_file,
                                               FileGet(files, t.file)),
                              t.file)
    /\ writer' = None
    /\ task_state' = [task_state EXCEPT ![t] = "committed"]
    /\ updates' = updates + 1
    /\ index_committed' = Some([files |-> files, lookup_tables |-> lookup_tables'])
    /\ UNCHANGED <<server_vars, syntax_vars, files, line_map_vars, doc_vars, indexer_pc, notified,
                   task_symbols, index_readers, index_observed>>

\* A query takes the read guard: index.get().
IndexReadBegin ==
    /\ index_readers < MaxIndexReaders
    /\ CanReadIndex(writer)
    /\ index_readers' = index_readers + 1
    /\ UNCHANGED <<server_vars, syntax_vars, index_vars, line_map_vars, doc_vars, indexer_pc, notified,
                   task_state, task_symbols, writer, index_observed,
                   index_committed>>

\* The query reads files and the lookup tables and drops its guard.
IndexRead ==
    /\ index_readers > 0
    /\ index_observed' =
           Some([seen |-> IF Some([files |-> files,
                                   lookup_tables |-> lookup_tables])
                                = index_committed
                          THEN "whole" ELSE "partial",
                 updates |-> updates])
    /\ index_readers' = index_readers - 1
    /\ UNCHANGED <<server_vars, syntax_vars, index_vars, line_map_vars, doc_vars, indexer_pc, notified,
                   task_state, task_symbols, writer, index_committed>>

IndexerNext ==
    \/ StartIndexing
    \/ \E t \in IndexerTasks : VisitFile(t)
    \/ ScopeEnd
    \/ NotifyInactive
    \/ \E t \in IndexerTasks : TaskReturn(t)
    \/ \E t \in IndexerTasks : TaskInsert(t)
    \/ \E t \in IndexerTasks : TaskUpdateTables(t)
    \/ IndexReadBegin
    \/ IndexRead

SpecIndexer == IndexerInit /\ [][IndexerNext]_vars

(***************************************************************************)
(* The server beside the indexer: documents are opened, changed and closed *)
(* while the tasks of the indexer commit and the observer is told.         *)
(***************************************************************************)
ServerInit ==
    /\ IndexIdle
    /\ LineMapIdle
    /\ DocIdle
    /\ IndexerIdle
    /\ SyntaxMapIdle
    /\ ServerIdle

\* IndexerObserver::state_transition of the server, up to its loop over
\* the open documents.
state_transition(old_state, new_state) ==
    observer' = IF ObserverMatches(old_state, new_state)
                THEN [observer EXCEPT !.state = new_state, !.pc = "loop",
                                      !.visited = {},
                                      !.open_then = OpenUrls(open_files)]
                ELSE [observer EXCEPT !.state = new_state]

\* The closure of start_indexing reports Initializing to InitialIndexing.
ObserverInitialIndexing ==
    /\ observer.state = "Initializing"
    /\ state_transition("Initializing", "InitialIndexing")
    /\ UNCHANGED <<index_vars, line_map_vars, doc_vars, indexer_vars,
                   syntax_vars, open_files, opening, response>>

\* A task of the indexer commits its update_file.
IndexTask ==
    /\ observer.state = "InitialIndexing"
    /\ observer.pc # "loop"
    /\ updates < MaxServerUpdates
    /\ \E f \in FileRefs, symbols \in ServerSymbolLists :
          update_file(f, symbols)
    /\ updates' = updates + 1
    /\ UNCHANGED <<line_map_vars, doc_vars, indexer_vars, syntax_vars,
                   server_vars>>

\* The scopes have returned: the closure reports InitialIndexing to
\* Inactive.
ObserverInactive ==
    /\ observer.state = "InitialIndexing"
    /\ observer.pc # "loop"
    /\ state_transition("InitialIndexing", "Inactive")
    /\ UNCHANGED <<index_vars, line_map_vars, doc_vars, indexer_vars,
                   syntax_vars, open_files, opening, response>>

\* One turn of the loop over open_files.iter_mut(): file.update_syntax_map().
ObserverRebuild(u) ==
    /\ observer.pc = "loop"
    /\ open_files[u] # None
    /\ u \notin observer.visited
    /\ open_files' = [open_files EXCEPT
                        ![u] = Some(update_syntax_map(@[1], lookup_tables))]
    /\ observer' = [observer EXCEPT !.visited = @ \cup {u}]
    /\ UNCHANGED <<index_vars, line_map_vars, doc_vars, indexer_vars,
                   syntax_vars, opening, response>>

\* The loop has met every document that was there throughout; the refresh
\* is handed to the runtime.
ObserverSpawnRefresh ==
    /\ observer.pc = "loop"
    /\ observer.open_then \subseteq observer.visited
    /\ observer' = [observer EXCEPT !.pc = "done", !.refresh = "spawned"]
    /\ UNCHANGED <<index_vars, line_map_vars, doc_vars, indexer_vars,
                   syntax_vars, open_files, opening, response>>

\* The spawned task runs: client.semantic_tokens_refresh().
RefreshSend ==
    /\ observer.refresh = "spawned"
    /\ observer' = [observer EXCEPT !.refresh = "sent"]
    /\ UNCHANGED <<index_vars, line_map_vars, doc_vars, indexer_vars,
                   syntax_vars, open_files, opening, response>>

\* did_open, first half: DataFlexDocument::new builds the document.
DidOpenBuild(u, d) ==
    /\ opening = None
    /\ opening' = Some([uri |-> u,
                        doc |-> DataFlexDocumentNew(d, lookup_tables)])
    /\ UNCHANGED <<index_vars, line_map_vars, doc_vars, indexer_vars,
                   syntax_vars, open_files, observer, response>>

\* did_open, second half: open_files.insert puts it under its uri.
DidOpenInsert ==
    /\ opening # None
    /\ open_files' = [open_files EXCEPT ![opening[1].uri] = Some(opening[1].doc)]
    /\ opening' = None
    /\ observer' = [observer EXCEPT !.open_then = @ \ {opening[1].uri}]
    /\ UNCHANGED <<index_vars, line_map_vars, doc_vars, indexer_vars,
                   syntax_vars, response>>

\* did_change with a change that has no range: the line map is replaced,
\* the tree dropped, and update() parses and rebuilds the token map.
DidChange(u, d) ==
    /\ opening = None
    /\ open_files[u] # None
    /\ open_files' = [open_files EXCEPT
                        ![u] = Some(DataFlexDocumentNew(d, lookup_tables))]
    /\ UNCHANGED <<index_vars, line_map_vars, doc_vars, indexer_vars,
                   syntax_vars, opening, observer, response>>

\* did_close
DidClose(u) ==
    /\ opening = None
    /\ open_files[u] # None
    /\ open_files' = [open_files EXCEPT ![u] = None]
    /\ observer' = [observer EXCEPT !.open_then = @ \ {u}]
    /\ UNCHANGED <<index_vars, line_map_vars, doc_vars, indexer_vars,
                   syntax_vars, opening, response>>

ServerNext ==
    \/ ObserverInitialIndexing
    \/ IndexTask
    \/ ObserverInactive
    \/ \E u \in Urls : ObserverRebuild(u)
    \/ ObserverSpawnRefresh
    \/ RefreshSend
    \/ \E u \in Urls, d \in ServerDocs : DidOpenBuild(u, d)
    \/ DidOpenInsert
    \/ \E u \in Urls, d \in ServerDocs : DidChange(u, d)
    \/ \E u \in Urls : DidClose(u)

SpecServer == ServerInit /\ [][ServerNext]_vars

(***************************************************************************)
(* A token map under get_tokens_for_lines and get_all_tokens, as the tests *)
(* of syntax_map.rs call them.                                             *)
(***************************************************************************)
\* The tokens a line of a map may hold, and the maps made of such lines.
LineTokens ==
    {[delta_start |-> 0, length |-> 1, kind |-> 0],
     [delta_start |-> 2, length |-> 1, kind |-> 1]}
TokenRows == SeqsUpTo(SeqsUpTo(LineTokens, MaxLineTokens), MaxTokenLines)

SyntaxMapInit ==
    /\ IndexIdle
    /\ LineMapIdle
    /\ DocIdle
    /\ IndexerIdle
    /\ ServerIdle
    /\ token_lines \in TokenRows
    /\ sem_tokens = None

GetTokensForLines ==
    /\ \E range_start \in 0..Len(token_lines),
          range_end \in 0..Len(token_lines) :
          /\ range_start <= range_end
          /\ sem_tokens' = Some([all |-> FALSE,
                                 range_start |-> range_start,
                                 range_end |-> range_end,
                                 tokens |-> get_tokens_for_lines(
                                     token_lines, range_start, range_end)])
    /\ UNCHANGED <<index_vars, line_map_vars, doc_vars, indexer_vars,
                   server_vars, token_lines>>

GetAllTokens ==
    /\ sem_tokens' = Some([all |-> TRUE,
                           range_start |-> 0,
                           range_end |-> Len(token_lines),
                           tokens |-> get_all_tokens(token_lines)])
    /\ UNCHANGED <<index_vars, line_map_vars, doc_vars, indexer_vars,
                   server_vars, token_lines>>

SyntaxMapNext == GetTokensForLines \/ GetAllTokens

SpecSyntaxMap == SyntaxMapInit /\ [][SyntaxMapNext]_vars

(***************************************************************************)
(* The queries of an open document while the index fills.                  *)
(***************************************************************************)
\* A document opened against the empty index.
QueryInit ==
    /\ IndexIdle
    /\ LineMapIdle
    /\ DocIdle
    /\ IndexerIdle
    /\ SyntaxMapIdle
    /\ \E d \in Docs :
          open_files = [u \in Urls |->
                           IF u = "a.src"
                           THEN Some(DataFlexDocumentNew(d, NewLookupTables))
                           ELSE None]
    /\ opening = None
    /\ observer = ObserverNew
    /\ response = None

\* A task of the indexer commits its update_file.
QueryIndexTask ==
    /\ updates < MaxQueryUpdates
    /\ \E f \in FileRefs :
          \E symbols \in QuerySymbolLists(f) : update_file(f, symbols)
    /\ updates' = updates + 1
    /\ UNCHANGED <<line_map_vars, doc_vars, indexer_vars, syntax_vars,
                   server_vars>>

\* The points of an open document.
PointsOf(u) ==
    QueryPoints([tree |-> open_files[u][1].tree[1],
                 line_count |-> open_files[u][1].line_count])

\* A handler answers; the handlers run one at a time, and the answer of one
\* is on its way before the next is called.
Respond(op, u, position, result) ==
    /\ response = None
    /\ response' = Some([op |-> op, uri |-> u, position |-> position,
                         result |-> result])
    /\ UNCHANGED <<index_vars, line_map_vars, doc_vars, indexer_vars,
                   syntax_vars, open_files, opening, observer>>

\* DocumentContext::context at a point of the document.
Context ==
    \E u \in OpenUrls(open_files) :
        \E position \in PointsOf(u) :
            Respond("context", u, position,
                    context(open_files[u][1].tree, position))

\* goto_definition
GotoDefinition ==
    \E u \in OpenUrls(open_files) :
        \E position \in PointsOf(u) :
            Respond("definition", u, position,
                    find_definition(open_files[u][1].tree, position, files,
                                    lookup_tables))

\* completion
Completion ==
    \E u \in OpenUrls(open_files) :
        \E position \in PointsOf(u) :
            Respond("completion", u, position,
                    code_completion(open_files[u][1].tree, position,
                                    lookup_tables))

\* ReferenceResolver::resolve_reference
ResolveReference ==
    \E u \in OpenUrls(open_files) :
        \E position \in PointsOf(u) :
            Respond("reference", u, position,
                    resolve_reference(open_files[u][1].tree, position, files,
                                      lookup_tables))

\* The client has the answer.
ResponseDelivered ==
    /\ response # None
    /\ response' = None
    /\ UNCHANGED <<index_vars, line_map_vars, doc_vars, indexer_vars,
                   syntax_vars, open_files, opening, observer>>

QueryNext ==
    \/ QueryIndexTask
    \/ ResponseDelivered
    \/ Context
    \/ GotoDefinition
    \/ Completion
    \/ ResolveReference

SpecQuery == QueryInit /\ [][QueryNext]_vars

(***************************************************************************)
(* A completion query beside the tasks of the indexer: the read guards     *)
(* method_completions takes (code_completion.rs:57-90) and the write guard *)
(* of update_file (indexer.rs:231), on the std RwLock of IndexRef.         *)
(***************************************************************************)
\* What the tasks of the workspace find in their files.
CompletionSymbolLists ==
    {<<ClassSymbol("cA", <<MethodSymbol("cA", "foo", "Function")>>,
                   <<PropertySymbol("cA", "bar")>>)>>,
     <<ClassSymbol("cA", <<MethodSymbol("cA", "foo", "Procedure")>>, <<>>)>>}

\* A task has asked for the write guard and is kept waiting.
WritersWaiting(states) == \E t \in IndexerTasks : states[t] = "waiting"

\* RwLock::read of std, as IndexRef::get calls it: never granted while a
\* write guard is held; with a writer waiting it is granted or not, as the
\* policy of the platform's lock has it; granted otherwise.
ReadGrants(w, states) ==
    IF w # None THEN {FALSE}
    ELSE IF WritersWaiting(states) THEN {TRUE, FALSE}
    ELSE {TRUE}

\* A reader kept waiting gets its guard once no writer holds or awaits the
\* lock.
ReadWakes(w, states) == w = None /\ ~WritersWaiting(states)

\* Where method_completions stands: before its first index.get(), before
\* the second one inside chain(..), before collect() and the end of the
\* arm, where the temporaries are dropped; kept waiting by a get; returned.
CompletionAt(at) ==
    IF index_observed = None THEN FALSE ELSE index_observed[1].pc = at

completion_rest ==
    <<line_map_vars, doc_vars, server_vars, syntax_vars, indexer_pc, notified,
      index_committed>>

CompletionInit ==
    /\ IndexIdle
    /\ LineMapIdle
    /\ DocIdle
    /\ ServerIdle
    /\ SyntaxMapIdle
    /\ indexer_pc = "start"
    /\ notified = <<>>
    /\ task_state = [t \in IndexerTasks |->
                        IF t.root = "workspace" THEN "spawned" ELSE "pending"]
    /\ \E found \in [FileRefs -> CompletionSymbolLists] :
          task_symbols = [t \in IndexerTasks |->
                             IF t.root = "workspace" THEN found[t.file]
                             ELSE <<>>]
    /\ writer = None
    /\ index_readers = 0
    /\ index_observed = None
    /\ index_committed = None

\* method_completions(doc, kind) is called.
MethodCompletionsCall(kind) ==
    /\ IF index_observed = None THEN TRUE
       ELSE index_observed[1].pc = "returned"
    /\ index_observed' = Some([kind |-> kind, pc |-> "methods",
                               items |-> EmptyBag])
    /\ UNCHANGED <<index_vars, task_state, task_symbols, writer, index_readers,
                   completion_rest>>

\* The query has the guard of its first index.get(): all_known_methods is
\* read under it, and the guard, a temporary of the arm, stays.
first_get ==
    /\ index_readers' = index_readers + 1
    /\ index_observed' =
           Some([index_observed[1] EXCEPT
                    !.items = ItemsOfKeys(
                        lookup_tables.method_lookup_tables[index_observed[1].kind],
                        "Method"),
                    !.pc = IF index_observed[1].kind = "Procedure"
                           THEN "collect" ELSE "properties"])

\* doc.index.get().all_known_methods(kind)
FirstGet ==
    /\ CompletionAt("methods")
    /\ \E granted \in ReadGrants(writer, task_state) :
          IF granted THEN first_get
          ELSE /\ index_observed' = Some([index_observed[1] EXCEPT
                                             !.pc = "methods_waits"])
               /\ UNCHANGED index_readers
    /\ UNCHANGED <<index_vars, task_state, task_symbols, writer,
                   completion_rest>>

FirstGetWakes ==
    /\ CompletionAt("methods_waits")
    /\ ReadWakes(writer, task_state)
    /\ first_get
    /\ UNCHANGED <<index_vars, task_state, task_symbols, writer,
                   completion_rest>>

\* The query has the guard of the index.get() in the argument of chain:
\* all_known_properties is read under it.
second_get ==
    /\ index_readers' = index_readers + 1
    /\ index_observed' =
           Some([index_observed[1] EXCEPT
                    !.items = @ (+) ItemsOfKeys(
                                        lookup_tables.property_lookup_table,
                                        "Property"),
                    !.pc = "collect"])

\* chain(doc.index.get().all_known_properties()..), in the arm of Function
\* and Set. A query kept waiting here holds the guard of its first get, for
\* which the waiting writer waits in turn: nothing wakes it.
SecondGet ==
    /\ CompletionAt("properties")
    /\ \E granted \in ReadGrants(writer, task_state) :
          IF granted THEN second_get
          ELSE /\ index_observed' = Some([index_observed[1] EXCEPT
                                             !.pc = "properties_waits"])
               /\ UNCHANGED index_readers
    /\ UNCHANGED <<index_vars, task_state, task_symbols, writer,
                   completion_rest>>

\* collect() and the end of the arm: the guards are dropped and
\* method_completions returns.
Collect ==
    /\ CompletionAt("collect")
    /\ index_readers' = 0
    /\ index_observed' = Some([index_observed[1] EXCEPT !.pc = "returned"])
    /\ UNCHANGED <<index_vars, task_state, task_symbols, writer,
                   completion_rest>>

\* index.get_mut() of a task: the write guard is taken, or the task waits
\* for it.
WorkerGetMut(t) ==
    /\ task_state[t] = "spawned"
    /\ IF CanWriteIndex(writer, index_readers)
       THEN /\ writer' = Some([task |-> t,
                               old_index_file |-> FileGet(files, t.file)])
            /\ task_state' = [task_state EXCEPT ![t] = "writing"]
       ELSE /\ task_state' = [task_state EXCEPT ![t] = "waiting"]
            /\ UNCHANGED writer
    /\ UNCHANGED <<index_vars, task_symbols, index_readers, index_observed,
                   completion_rest>>

\* The lock is free: a waiting task gets the write guard.
WorkerGetMutWakes(t) ==
    /\ task_state[t] = "waiting"
    /\ CanWriteIndex(writer, index_readers)
    /\ writer' = Some([task |-> t, old_index_file |-> FileGet(files, t.file)])
    /\ task_state' = [task_state EXCEPT ![t] = "writing"]
    /\ UNCHANGED <<index_vars, task_symbols, index_readers, index_observed,
                   completion_rest>>

\* update_file under the write guard, which is dropped at the end of the
\* statement.
WorkerUpdateFile(t) ==
    /\ task_state[t] = "writing"
    /\ update_file(t.file, task_symbols[t])
    /\ updates' = updates + 1
    /\ writer' = None
    /\ task_state' = [task_state EXCEPT ![t] = "committed"]
    /\ UNCHANGED <<task_symbols, index_readers, index_observed,
                   completion_rest>>

CompletionNext ==
    \/ \E kind \in MethodKinds : MethodCompletionsCall(kind)
    \/ FirstGet
    \/ FirstGetWakes
    \/ SecondGet
    \/ Collect
    \/ \E t \in IndexerTasks : WorkerGetMut(t)
    \/ \E t \in IndexerTasks : WorkerGetMutWakes(t)
    \/ \E t \in IndexerTasks : WorkerUpdateFile(t)

SpecCompletion == CompletionInit /\ [][CompletionNext]_vars

(***************************************************************************)
(* The handlers beside the closure of start_indexing: the client opens,    *)
(* changes, closes and queries documents, open or not, and shuts the       *)
(* server down, while the closure indexes, logs and notifies.              *)
(***************************************************************************)
HandlersInit ==
    /\ IndexIdle
    /\ LineMapIdle
    /\ DocIdle
    /\ IndexerIdle
    /\ SyntaxMapIdle
    /\ ServerIdle

\* The process lives until a handler panics or the client has sent exit.
ProcessRuns ==
    IF response = None THEN TRUE
    ELSE ~response[1].panic /\ response[1].op # "exit"

closure_rest ==
    <<task_state, task_symbols, writer, index_observed, index_committed>>

\* A handler runs to its end; the handlers run one at a time. The answer
\* keeps what the parser was set to yield in this call.
Handle(op, u, position, yields, handled) ==
    /\ response = None
    /\ open_files' = handled.open_files
    /\ response' = Some([op |-> op, uri |-> u, position |-> position,
                         parser |-> yields,
                         result |-> handled.outcome.value,
                         panic |-> handled.outcome.panic])
    /\ observer' = IF op \in {"did_open", "did_close"}
                   THEN [observer EXCEPT !.open_then = @ \ {u}]
                   ELSE observer
    /\ UNCHANGED <<index_vars, line_map_vars, doc_vars, indexer_vars,
                   syntax_vars, opening>>

HandleDidOpen ==
    \E u \in Urls, d \in ServerDocs, yields \in ParserYields :
        Handle("did_open", u, None, yields,
               did_open(open_files, u, d, yields, lookup_tables))

HandleDidClose ==
    \E u \in Urls : Handle("did_close", u, None, "tree",
                         did_close(open_files, u))

HandleDidChange ==
    \E u \in Urls, d \in ServerDocs, yields \in ParserYields :
        Handle("did_change", u, None, yields,
               did_change(open_files, u, d, yields, lookup_tables))

HandleSemanticTokensFull ==
    \E u \in Urls :
        Handle("semantic_tokens_full", u, None, "tree",
               semantic_tokens_full(open_files, u))

HandleGotoDefinition ==
    \E u \in Urls :
        \E position \in HandlerPoints(open_files, u) :
            Handle("goto_definition", u, Some(position), "tree",
                   goto_definition(open_files, u, position, files,
                                   lookup_tables))

HandleCompletion ==
    \E u \in Urls :
        \E position \in HandlerPoints(open_files, u) :
            Handle("completion", u, Some(position), "tree",
                   completion(open_files, u, position, lookup_tables))

\* The shutdown request is acknowledged; the client sends no request after
\* it.
HandleShutdown ==
    /\ response = None
    /\ response' = Some([op |-> "shutdown", uri |-> None, position |-> None,
                         parser |-> "tree",
                         result |-> shutdown(open_files).outcome.value,
                         panic |-> shutdown(open_files).outcome.panic])
    /\ UNCHANGED <<index_vars, line_map_vars, doc_vars, indexer_vars,
                   syntax_vars, open_files, opening, observer>>

\* The exit notification after shutdown: serve() returns and main with it.
Exit ==
    /\ response # None
    /\ response[1].op = "shutdown"
    /\ response' = Some([response[1] EXCEPT !.op = "exit"])
    /\ UNCHANGED <<index_vars, line_map_vars, doc_vars, indexer_vars,
                   syntax_vars, open_files, opening, observer>>

\* The client has the answer of a handler that returned.
HandlerReturn ==
    /\ response # None
    /\ ~response[1].panic
    /\ response[1].op \notin {"shutdown", "exit"}
    /\ response' = None
    /\ UNCHANGED <<index_vars, line_map_vars, doc_vars, indexer_vars,
                   syntax_vars, open_files, opening, observer>>

\* The closure starts: the first report (indexer.rs:47). The configuration
\* of IndexerConfig::new() is taken to hold no system paths for the
\* version.
ClosureStart ==
    /\ ProcessRuns
    /\ indexer_pc = "start"
    /\ state_transition("Initializing", "InitialIndexing")
    /\ notified' = Append(notified, FirstTransition)
    /\ indexer_pc' = "workspace"
    /\ UNCHANGED <<index_vars, line_map_vars, doc_vars, closure_rest,
                   index_readers, syntax_vars, open_files, opening, response>>

\* A task of the scope of index_workspace commits its update_file.
ClosureTask ==
    /\ ProcessRuns
    /\ indexer_pc = "workspace"
    /\ updates < MaxHandlerUpdates
    /\ CanWriteIndex(writer, index_readers)
    /\ \E f \in FileRefs, symbols \in ServerSymbolLists :
          update_file(f, symbols)
    /\ updates' = updates + 1
    /\ UNCHANGED <<line_map_vars, doc_vars, indexer_vars, syntax_vars,
                   server_vars>>

\* The scope returns: every task spawned in it is done.
ClosureScopeEnd ==
    /\ ProcessRuns
    /\ indexer_pc = "workspace"
    /\ indexer_pc' = "log"
    /\ UNCHANGED <<index_vars, line_map_vars, doc_vars, closure_rest,
                   notified, index_readers, syntax_vars, server_vars>>

\* log::info!("Finished indexing: {} files", index.get().files.len()):
\* the read guard is taken.
ClosureLogBegin ==
    /\ ProcessRuns
    /\ indexer_pc = "log"
    /\ CanReadIndex(writer)
    /\ index_readers' = index_readers + 1
    /\ indexer_pc' = "logging"
    /\ UNCHANGED <<index_vars, line_map_vars, doc_vars, closure_rest,
                   notified, syntax_vars, server_vars>>

\* The statement ends.
ClosureLogEnd ==
    /\ ProcessRuns
    /\ indexer_pc = "logging"
    /\ index_readers' = DropGuard(index_readers)
    /\ indexer_pc' = "notify"
    /\ UNCHANGED <<index_vars, line_map_vars, doc_vars, closure_rest,
                   notified, syntax_vars, server_vars>>

\* The second report (indexer.rs:56): the callback of the server starts on
\* the thread of the closure.
ClosureNotify ==
    /\ ProcessRuns
    /\ indexer_pc = "notify"
    /\ state_transition("InitialIndexing", "Inactive")
    /\ notified' = Append(notified, FinalTransition)
    /\ indexer_pc' = "callback"
    /\ UNCHANGED <<index_vars, line_map_vars, doc_vars, closure_rest,
                   index_readers, syntax_vars, open_files, opening, response>>

\* One turn of the loop of the callback.
ClosureRebuild ==
    /\ ProcessRuns
    /\ indexer_pc = "callback"
    /\ \E u \in Urls : ObserverRebuild(u)

\* The callback hands the refresh to the runtime and returns; the closure
\* goes on to watch the workspace.
ClosureSpawnRefresh ==
    /\ ProcessRuns
    /\ indexer_pc = "callback"
    /\ observer.pc = "loop"
    /\ observer.open_then \subseteq observer.visited
    /\ observer' = [observer EXCEPT !.pc = "done", !.refresh = "spawned"]
    /\ indexer_pc' = "watching"
    /\ UNCHANGED <<index_vars, line_map_vars, doc_vars, closure_rest,
                   notified, index_readers, syntax_vars, open_files, opening,
                   response>>

\* The spawned task runs on the runtime.
RuntimeRefresh ==
    /\ ProcessRuns
    /\ RefreshSend

HandlersNext ==
    \/ HandleDidOpen
    \/ HandleDidClose
    \/ HandleDidChange
    \/ HandleSemanticTokensFull
    \/ HandleGotoDefinition
    \/ HandleCompletion
    \/ HandleShutdown
    \/ Exit
    \/ HandlerReturn
    \/ ClosureStart
    \/ ClosureTask
    \/ ClosureScopeEnd
    \/ ClosureLogBegin
    \/ ClosureLogEnd
    \/ ClosureNotify
    \/ ClosureRebuild
    \/ ClosureSpawnRefresh
    \/ RuntimeRefresh

SpecHandlers == HandlersInit /\ [][HandlersNext]_vars

(***************************************************************************)
(* Claims about the index.                                                 *)
(***************************************************************************)
Range(s) == {s[i] : i \in 1..Len(s)}

\* A MultiMap entry as a bag: each reference with its number of copies.
RefsBag(refs) ==
    [r \in Range(refs) |-> Cardinality({i \in 1..Len(refs) : refs[i] = r})]

SameMultiMap(a, b) ==
    /\ DOMAIN a = DOMAIN b
    /\ \A n \in DOMAIN a : RefsBag(a[n]) = RefsBag(b[n])

SameLookupTables(a, b) ==
    /\ a.class_lookup_table = b.class_lookup_table
    /\ \A k \in MethodKinds :
          SameMultiMap(a.method_lookup_tables[k], b.method_lookup_tables[k])
    /\ SameMultiMap(a.property_lookup_table, b.property_lookup_table)

\* The lookup tables of a fresh index to which only this IndexFile is applied.
RebuiltTables(file_ref, index_file) ==
    IndexUpdateFile(EmptyMap, NewLookupTables, file_ref, index_file).lookup_tables

\* C1: after any sequence of IndexFiles for one file applied to a fresh
\* index, the lookup tables equal those of a fresh index to which only the
\* last IndexFile is applied (each entry compared as a bag of references).
C1_TablesEqualRebuild ==
    \A f \in FileRefs :
        DOMAIN files = {f} =>
            SameLookupTables(lookup_tables, RebuiltTables(f, files[f]))

\* Every IndexSymbolRef stored in a lookup table.
AllRefs(tables) ==
    {tables.class_lookup_table[n] : n \in DOMAIN tables.class_lookup_table}
    \cup UNION {UNION {Range(tables.method_lookup_tables[k][n]) :
                         n \in DOMAIN tables.method_lookup_tables[k]} :
                  k \in MethodKinds}
    \cup UNION {Range(tables.property_lookup_table[n]) :
                  n \in DOMAIN tables.property_lookup_table}

RefResolves(fs, ref) ==
    /\ ref.file_ref \in DOMAIN fs
    /\ FileResolve(fs[ref.file_ref], ref.symbol_path) # <<>>

\* C2: every reference stored in a lookup table names a file of the files
\* map and a path that resolves, by descent in that file, to a symbol.
C2_NoDanglingRef ==
    \A ref \in AllRefs(lookup_tables) : RefResolves(files, ref)

\* The names the IndexFiles of fs declare: of classes, of methods (of any
\* kind) or of properties.
DeclaredNames(fs, variant) ==
    UNION {UNION {IF variant = "Class" THEN {c.name}
                  ELSE IF variant = "Method"
                       THEN {SymbolNameOf(m) : m \in Range(c.methods)}
                       ELSE {SymbolNameOf(q) : q \in Range(c.properties)} :
                  c \in Range(fs[f].symbols)} :
           f \in DOMAIN fs}

\* A symbol list with the class at i renamed: its members keep their names
\* and get the paths index_parse_tree gives them under the new class name.
RenameClassAt(symbols, i, new) ==
    LET c == symbols[i]
    IN  [symbols EXCEPT ![i] =
           ClassSymbol(new,
             [j \in 1..Len(c.methods) |->
                MethodSymbol(new, SymbolNameOf(c.methods[j]), c.methods[j].kind)],
             [j \in 1..Len(c.properties) |->
                PropertySymbol(new, SymbolNameOf(c.properties[j]))])]

RenameMethodAt(symbols, i, j, new) ==
    [symbols EXCEPT ![i].methods[j].symbol_path = <<symbols[i].name, new>>]

RenamePropertyAt(symbols, i, j, new) ==
    [symbols EXCEPT ![i].properties[j].symbol_path = <<symbols[i].name, new>>]

\* The references into file f that a MultiMap holds under a name.
OwnRefs(map, f, n) ==
    IF n \in DOMAIN map
    THEN RefsBag(SelectSeq(map[n], LAMBDA r : r.file_ref = f))
    ELSE RefsBag(<<>>)

\* The references into file f under names other than the two given ones.
OtherEntries(map, f, old, new) ==
    [n \in (ClassNames \cup MemberNames) \ {old, new} |-> OwnRefs(map, f, n)]

\* The references into file f that do not lie in the two given classes.
RefsOutsideClasses(map, f, old, new) ==
    [n \in DOMAIN map |->
        RefsBag(SelectSeq(map[n],
                          LAMBDA r : r.file_ref = f
                                     /\ r.symbol_path[1] \notin {old, new}))]

\* The class lookup entries that point into file f, but for two names.
OwnClassEntries(map, f, old, new) ==
    {<<n, map[n]>> : n \in {m \in DOMAIN map \ {old, new} : map[m].file_ref = f}}

\* The step re-indexes file f with the class at i renamed to a name new to
\* the file, and the tables then hold what the claim says.
ClassRenameHolds(f, i, new) ==
    LET old == files[f].symbols[i].name
        t == lookup_tables
        u == lookup_tables'
    IN  (/\ new \notin {c.name : c \in Range(files[f].symbols)}
         /\ files' = [files EXCEPT ![f].symbols = RenameClassAt(@, i, new)]
         /\ old \notin DeclaredNames(files', "Class"))
        => /\ old \notin DOMAIN u.class_lookup_table
           /\ new \in DOMAIN u.class_lookup_table
           /\ u.class_lookup_table[new] = IndexSymbolRef(f, <<new>>)
           /\ OwnClassEntries(u.class_lookup_table, f, old, new)
                = OwnClassEntries(t.class_lookup_table, f, old, new)
           /\ \A k \in MethodKinds :
                 RefsOutsideClasses(u.method_lookup_tables[k], f, old, new)
                   = RefsOutsideClasses(t.method_lookup_tables[k], f, old, new)
           /\ RefsOutsideClasses(u.property_lookup_table, f, old, new)
                = RefsOutsideClasses(t.property_lookup_table, f, old, new)

MethodRenameHolds(f, i, j, new) ==
    LET c == files[f].symbols[i]
        old == SymbolNameOf(c.methods[j])
        k == c.methods[j].kind
        t == lookup_tables
        u == lookup_tables'
    IN  (/\ new \notin {SymbolNameOf(m) : m \in Range(c.methods)}
         /\ files' = [files EXCEPT ![f].symbols = RenameMethodAt(@, i, j, new)]
         /\ old \notin DeclaredNames(files', "Method"))
        => /\ \A k2 \in MethodKinds : old \notin DOMAIN u.method_lookup_tables[k2]
           /\ new \in DOMAIN u.method_lookup_tables[k]
           /\ IndexSymbolRef(f, <<c.name, new>>)
                \in Range(u.method_lookup_tables[k][new])
           /\ OwnClassEntries(u.class_lookup_table, f, old, old)
                = OwnClassEntries(t.class_lookup_table, f, old, old)
           /\ \A n \in MemberNames :
                 OwnRefs(u.property_lookup_table, f, n)
                   = OwnRefs(t.property_lookup_table, f, n)
           /\ \A k2 \in MethodKinds :
                 OtherEntries(u.method_lookup_tables[k2], f, old, new)
                   = OtherEntries(t.method_lookup_tables[k2], f, old, new)

PropertyRenameHolds(f, i, j, new) ==
    LET c == files[f].symbols[i]
        old == SymbolNameOf(c.properties[j])
        t == lookup_tables
        u == lookup_tables'
    IN  (/\ new \notin {SymbolNameOf(q) : q \in Range(c.properties)}
         /\ files' = [files EXCEPT ![f].symbols = RenamePropertyAt(@, i, j, new)]
         /\ old \notin DeclaredNames(files', "Property"))
        => /\ old \notin DOMAIN u.property_lookup_table
           /\ new \in DOMAIN u.property_lookup_table
           /\ IndexSymbolRef(f, <<c.name, new>>)
                \in Range(u.property_lookup_table[new])
           /\ OwnClassEntries(u.class_lookup_table, f, old, old)
                = OwnClassEntries(t.class_lookup_table, f, old, old)
           /\ \A k \in MethodKinds : \A n \in MemberNames :
                 OwnRefs(u.method_lookup_tables[k], f, n)
                   = OwnRefs(t.method_lookup_tables[k], f, n)
           /\ OtherEntries(u.property_lookup_table, f, old, new)
                = OtherEntries(t.property_lookup_table, f, old, new)

RenameHolds ==
    \A f \in DOMAIN files :
      \A i \in 1..Len(files[f].symbols) :
        /\ \A new \in ClassNames : ClassRenameHolds(f, i, new)
        /\ \A new \in MemberNames :
             /\ \A j \in 1..Len(files[f].symbols[i].methods) :
                    MethodRenameHolds(f, i, j, new)
             /\ \A j \in 1..Len(files[f].symbols[i].properties) :
                    PropertyRenameHolds(f, i, j, new)

\* C3: when a file is re-indexed with one class, method or property renamed
\* (to a name new in its scope, the old name declared nowhere any more), no
\* lookup for the old name returns an entry, the lookup for the new name
\* returns a reference into the file with the new path, and the entries of
\* the file's other symbols are what they were.
C3_RenamePurgesOldName == [][RenameHolds]_vars

\* C4: after any sequence of replace_range calls with in-range start <= end
\* that returned, the concatenation of the line map's line texts is the
\* original text with the same byte ranges spliced directly.
C4_TextEqualsDirectSplice ==
    ~panicked => LineMapText(lines) = direct_text

\* The tree a parse from scratch builds of a text.
ParseFromScratch(text) == Some(TreeOf(text))

\* C5: once edit_content has reparsed, the tree the document holds is the
\* tree a parse from scratch builds of the document's text.
C5_TreeEqualsFreshParse ==
    (~panicked /\ pc \in {"syntax", "idle"})
        => tree = ParseFromScratch(LineMapText(lines))

\* C7: a query holds its guard only while no did_change is at work on the
\* document, and what it reads is the document as the last returned
\* did_change (or did_open) left it, never a part of a change.
C7_QueryObservesWholeChange ==
    /\ readers > 0 => pc = "idle"
    /\ observed # None => observed[1].seen = "whole"

\* A query has read the document after a did_change with two changes
\* returned.
C7_Witness ==
    /\ observed # None
    /\ observed[1].seen = "whole"
    /\ observed[1].edits = 2
    /\ Len(call.changes) = 2

\* What a whole edit_content call does, in order.
ExpectedTrace(changes) ==
    [i \in 1..Len(changes) |-> [event |-> "change", change |-> Some(changes[i])]]
        \o <<[event |-> "parse", change |-> None],
             [event |-> "rebuild", change |-> None]>>

\* The lines after the changes are applied one after the other.
RECURSIVE ApplyInOrder(_, _)
ApplyInOrder(ls, changes) ==
    IF changes = <<>> THEN ls
    ELSE ApplyInOrder(EditChange(ls, None, Head(changes)).lines, Tail(changes))

\* C8: an edit_content call applies its changes in the given order, each to
\* the lines the changes before it produced (a change without range
\* replacing them all), then parses once and rebuilds the token map once.
C8_ChangesInOrderOneReparse ==
    LET expected == ExpectedTrace(call.changes)
        done == Len(call.changes) - Len(pending)
    IN  /\ Len(trace) <= Len(expected)
        /\ trace = SubSeq(expected, 1, Len(trace))
        /\ (pc = "idle" /\ trace # <<>>) => trace = expected
        /\ (~panicked /\ (pc # "idle" \/ trace # <<>>))
              => lines = ApplyInOrder(call.lines, SubSeq(call.changes, 1, done))

\* An edit_content call with a ranged change followed by a different change
\* has returned.
C8_Witness ==
    /\ ~panicked
    /\ pc = "idle"
    /\ Len(call.changes) = 2
    /\ call.changes[1].range # None
    /\ call.changes[1] # call.changes[2]
    /\ trace = ExpectedTrace(call.changes)

\* C6: a query holds the read guard of the index only while no update_file
\* is under way, and what it reads of files and the lookup tables is the
\* index as a finished update (or Index::new) left it: never the new
\* IndexFile with the old tables.
C6_UpdateAtomicForReaders ==
    /\ index_readers > 0 => writer = None
    /\ index_observed # None => index_observed[1].seen = "whole"

\* A query has read the index after an update replaced the IndexFile of an
\* earlier update.
C6_Witness ==
    /\ index_observed # None
    /\ index_observed[1].seen = "whole"
    /\ index_observed[1].updates = 2
    /\ Cardinality(DOMAIN files) = 1

\* C9: the observer of a start_indexing call is told Initializing to
\* InitialIndexing, then InitialIndexing to Inactive, and nothing else,
\* before or after; once the closure watches the workspace it has told both.
C9_TwoTransitionsInOrder ==
    LET both == <<Transition("Initializing", "InitialIndexing"),
                  Transition("InitialIndexing", "Inactive")>>
    IN  /\ Len(notified) <= 2
        /\ notified = SubSeq(both, 1, Len(notified))
        /\ indexer_pc = "watching" => notified = both

\* The closure has indexed files of both roots and told both transitions.
C9_Witness ==
    /\ indexer_pc = "watching"
    /\ Len(notified) = 2
    /\ \E s, w \in IndexerTasks :
          /\ s.root = "system" /\ task_state[s] = "committed"
          /\ w.root = "workspace" /\ task_state[w] = "committed"

ToldInactive ==
    \E i \in 1..Len(notified) : notified[i].new = "Inactive"

\* C10 as stated: every spawned task of the system paths has committed its
\* update before a workspace file is committed, and Inactive is told only
\* after every spawned task has committed its update.
C10_AllCommittedInOrder ==
    /\ \A w, s \in IndexerTasks :
          (/\ w.root = "workspace" /\ task_state[w] \in {"writing", "committed"}
           /\ s.root = "system" /\ Spawned(task_state[s]))
              => task_state[s] = "committed"
    /\ ToldInactive
          => \A t \in IndexerTasks :
                Spawned(task_state[t]) => task_state[t] = "committed"

\* C10 as amended: every spawned task of the system paths has finished (it
\* committed its update or returned without one) before a workspace file
\* is committed, and Inactive is told only after every spawned task has
\* finished.
C10_AllFinishedInOrder ==
    /\ \A w, s \in IndexerTasks :
          (/\ w.root = "workspace" /\ task_state[w] \in {"writing", "committed"}
           /\ s.root = "system" /\ Spawned(task_state[s]))
              => Finished(task_state[s])
    /\ ToldInactive
          => \A t \in IndexerTasks :
                Spawned(task_state[t]) => Finished(task_state[t])

\* Inactive has been told after tasks of both roots committed and one task
\* returned without an update.
C10_Witness ==
    /\ ToldInactive
    /\ \E s, w, r \in IndexerTasks :
          /\ s.root = "system" /\ task_state[s] = "committed"
          /\ w.root = "workspace" /\ task_state[w] = "committed"
          /\ task_state[r] = "returned"

(***************************************************************************)
(* The token maps of the open documents and the index (SpecServer).        *)
(***************************************************************************)
\* The lines of a document's token map.
TokenRowsOf(doc) == IF doc.syntax_map = None THEN <<>> ELSE doc.syntax_map[1]

\* The tokens of a token map at their places in the text: the column of a
\* token is the sum of the delta_start of its line up to it.
RECURSIVE SumDeltaStart(_, _)
SumDeltaStart(tokens, k) ==
    IF k = 0 THEN 0 ELSE tokens[k].delta_start + SumDeltaStart(tokens, k - 1)

PlacedTokens(token_rows) ==
    UNION {{[start |-> Point(r - 1, SumDeltaStart(token_rows[r], k)),
             length |-> token_rows[r][k].length,
             kind |-> token_rows[r][k].kind] : k \in 1..Len(token_rows[r])} :
           r \in 1..Len(token_rows)}

\* The documents the server holds: the open ones and the one did_open is
\* about to insert.
HeldDocs ==
    {open_files[u][1] : u \in OpenUrls(open_files)}
        \cup (IF opening = None THEN {} ELSE {opening[1].doc})

\* The leaf of a document a token sits on.
LeafOfToken(doc, token) ==
    {n \in LeavesOf(doc.tree[1]) :
        /\ n.start = token.start
        /\ n.end = Point(token.start.row, token.start.column + token.length)}

HasTokenOn(doc, node, kind) ==
    \E token \in PlacedTokens(TokenRowsOf(doc)) :
        token.kind = kind /\ node \in LeafOfToken(doc, token)

\* The superclass leaves of a document.
SuperclassLeaves(doc) ==
    {n \in LeavesOf(doc.tree[1]) : n.field = "superclass"}

\* C11: once the observer has handed the semantic-tokens refresh to the
\* runtime it has been told InitialIndexing to Inactive, and every document
\* that was open at that moment and still is holds the token map generated
\* from its tree against the lookup tables of that moment (which no task
\* changes afterwards): the rebuilds come before the refresh.
C11_RebuiltBeforeRefresh ==
    observer.refresh # "none" =>
        /\ observer.state = "Inactive"
        /\ \A u \in observer.open_then :
              /\ open_files[u] # None
              /\ open_files[u][1].built_with = lookup_tables
              /\ open_files[u][1].syntax_map =
                     Some(generate_lines(open_files[u][1].tree[1],
                                         open_files[u][1].line_count,
                                         lookup_tables))

\* The refresh was sent after a document open at the transition was
\* rebuilt by the observer against tables that know its class.
C11_Witness ==
    /\ observer.refresh = "sent"
    /\ \E u \in observer.open_then \cap observer.visited :
          /\ open_files[u] # None
          /\ \E n \in SuperclassLeaves(open_files[u][1]) :
                HasTokenOn(open_files[u][1], n, 1)

\* C12: in every token map the server holds, a kind-1 token sits on a leaf
\* whose text is a key of the class lookup table the map was built against,
\* a kind-2 token on a leaf whose text is a key of one of the three method
\* lookup tables of that moment, and every keyword of the document has its
\* kind-0 token whatever the index held.
C12_TokensOnlyForKnownNames ==
    \A doc \in HeldDocs :
        /\ \A token \in PlacedTokens(TokenRowsOf(doc)) :
              /\ LeafOfToken(doc, token) # {}
              /\ token.kind = 1 =>
                    \A n \in LeafOfToken(doc, token) :
                        n.text \in DOMAIN doc.built_with.class_lookup_table
              /\ token.kind = 2 =>
                    \A n \in LeafOfToken(doc, token) :
                        \E k \in MethodKinds :
                            n.text \in DOMAIN doc.built_with.method_lookup_tables[k]
        /\ \A n \in LeavesOf(doc.tree[1]) :
              n.kind = "keyword" => HasTokenOn(doc, n, 0)

\* One open document carries a kind-1 and a kind-2 token, another document
\* with the same names carries neither.
C12_Witness ==
    \E d1, d2 \in HeldDocs :
        /\ d1.tree = d2.tree
        /\ \E t1, t2 \in PlacedTokens(TokenRowsOf(d1)) :
              t1.kind = 1 /\ t2.kind = 2
        /\ \A t \in PlacedTokens(TokenRowsOf(d2)) : t.kind = 0

\* C13: a document built while the class of its object header is not a key
\* of the class lookup table has no kind-1 token; a step that changes the
\* index leaves every token map as it was; and update_syntax_map on a
\* document whose header class is then a key puts the kind-1 token on it.
C13_TokenAppearsOnRebuildOnly ==
    [][/\ (opening = None /\ opening' # None)
              => \A n \in SuperclassLeaves(opening'[1].doc) :
                    ~is_known_class(lookup_tables, n.text)
                        => ~HasTokenOn(opening'[1].doc, n, 1)
       /\ (lookup_tables' # lookup_tables \/ files' # files)
              => (open_files' = open_files /\ opening' = opening)
       /\ \A u \in Urls :
             (u \notin observer.visited /\ u \in observer'.visited)
                 => \A n \in SuperclassLeaves(open_files'[u][1]) :
                       is_known_class(lookup_tables, n.text)
                           => HasTokenOn(open_files'[u][1], n, 1)]_vars

\* The index knows the class by now and the document opened before does
\* not show it yet.
C13_Witness ==
    \E u \in OpenUrls(open_files) :
        \E n \in SuperclassLeaves(open_files[u][1]) :
            /\ is_known_class(lookup_tables, n.text)
            /\ ~is_known_class(open_files[u][1].built_with, n.text)
            /\ ~HasTokenOn(open_files[u][1], n, 1)
            /\ observer.state = "InitialIndexing"

(***************************************************************************)
(* Points and offsets of a line map (SpecLineMap).                         *)
(***************************************************************************)
\* C14: on the line map of a text, point_at_offset(offset_at_point(p)) = p
\* for every position p of the text (any column of any row up to the end of
\* the row, the end of the document included), and
\* offset_at_point(point_at_offset(o)) = o for every offset o from 0 to the
\* length of the text.
C14_PointOffsetRoundTrip ==
    (~panicked /\ lines = LineMapNew(direct_text)) =>
        /\ \A p \in InRangePoints(direct_text) :
              point_at_offset(lines, offset_at_point(lines, p)) = p
        /\ \A o \in 0..Len(direct_text) :
              offset_at_point(lines, point_at_offset(lines, o)) = o

(***************************************************************************)
(* The semantic tokens of a line range (SpecSyntaxMap).                    *)
(***************************************************************************)
\* The places of the tokens of the lines range_start..range_end - 1: row
\* and index in the line.
TokenPlaces(token_rows, range_start, range_end) ==
    UNION {{[row |-> r, k |-> k] : k \in 1..Len(token_rows[r + 1])} :
           r \in range_start..(range_end - 1)}

PlaceBefore(p, q) == p.row < q.row \/ (p.row = q.row /\ p.k < q.k)

\* C15: get_tokens_for_lines returns one token for every token of the
\* lines of the range, in line order and in the order of the line, with the
\* delta_start, length and kind of the line's token; the first has as
\* delta_line its row minus the row of the last line with tokens before the
\* range (its row if there is none), every later one its row minus the row
\* of the token returned before it; and get_all_tokens returns what
\* get_tokens_for_lines returns for the range of all lines.
C15_DeltaLineOverRange ==
    sem_tokens # None =>
        LET res == sem_tokens[1]
            places == TokenPlaces(token_lines, res.range_start, res.range_end)
            rank(p) == Cardinality({q \in places : PlaceBefore(q, p)}) + 1
            before == {r \in 0..(res.range_start - 1) : token_lines[r + 1] # <<>>}
            base == IF before = {} THEN 0
                    ELSE CHOOSE r \in before : \A r2 \in before : r2 <= r
            prev(p) == IF rank(p) = 1 THEN base
                       ELSE (CHOOSE q \in places : rank(q) = rank(p) - 1).row
        IN  /\ Len(res.tokens) = Cardinality(places)
            /\ \A p \in places :
                  res.tokens[rank(p)] =
                      [delta_line |-> p.row - prev(p),
                       delta_start |-> token_lines[p.row + 1][p.k].delta_start,
                       length |-> token_lines[p.row + 1][p.k].length,
                       token_type |-> token_lines[p.row + 1][p.k].kind,
                       token_modifiers_bitset |-> 0]
            /\ res.all =>
                  /\ res.range_start = 0 /\ res.range_end = Len(token_lines)
                  /\ res.tokens = get_tokens_for_lines(token_lines, 0,
                                                       Len(token_lines))

\* A range that starts after two lines with tokens and returns two tokens
\* of one line.
C15_Witness ==
    /\ sem_tokens # None
    /\ ~sem_tokens[1].all
    /\ sem_tokens[1].range_start = 2
    /\ token_lines[1] # <<>> /\ token_lines[2] # <<>>
    /\ Len(sem_tokens[1].tokens) = 2

(***************************************************************************)
(* The answers of the queries (SpecQuery).                                 *)
(***************************************************************************)
\* A query of this kind is answered in the step.
Answered(op) == response = None /\ response' # None /\ response'[1].op = op

\* The tree of the document a response is about.
RootOf(r) == open_files[r.uri][1].tree[1]

\* The paths of the nodes of a tree in document order: a node comes before
\* its children, a child before the children after it.
RECURSIVE Preorder(_, _)
RECURSIVE PreorderOfChildren(_, _, _)
PreorderOfChildren(children, path, i) ==
    IF i > Len(children) THEN <<>>
    ELSE Preorder(children[i], Append(path, i))
             \o PreorderOfChildren(children, path, i + 1)

Preorder(node, path) == <<path>> \o PreorderOfChildren(node.children, path, 1)

\* The document order of every document a client opens.
DocumentOrder == [root \in {d.tree : d \in Docs} |-> Preorder(root, <<>>)]

IsPrefix(p, q) == Len(p) <= Len(q) /\ SubSeq(q, 1, Len(p)) = p

Least(S) == CHOOSE i \in S : \A j \in S : i <= j

\* The first leaf that ends after the start of a line: <<path>>, or <<>>.
FirstLeafOfLine(root, row) ==
    LET order == DocumentOrder[root]
        leaves == {i \in 1..Len(order) :
                      /\ NodeAt(root, order[i]).children = <<>>
                      /\ PointLt(Point(row, 0), NodeAt(root, order[i]).end)}
    IN  IF leaves = {} THEN <<>> ELSE <<order[Least(leaves)]>>

\* The node after a node, outside it: <<path>>, or <<>>.
NodeAfter(root, p) ==
    LET order == DocumentOrder[root]
        at == Least({i \in 1..Len(order) : order[i] = p})
        later == {j \in (at + 1)..Len(order) : ~IsPrefix(p, order[j])}
    IN  IF later = {} THEN <<>> ELSE <<order[Least(later)]>>

\* The point is in the slot of a name after a node: within the identifier
\* that follows, or before the start of the node that follows, or nothing
\* follows.
SlotAfter(root, p, point) ==
    LET after == NodeAfter(root, p)
    IN  \/ after = <<>>
        \/ LET n == NodeAt(root, after[1])
           IN  \/ /\ n.kind = "identifier"
                  /\ ~PointLt(point, n.start)
                  /\ ~PointLt(n.end, point)
               \/ PointLt(point, n.start)

\* The keyword a line starts with, in lower case, or "".
LineKeyword(root, row) ==
    LET first == FirstLeafOfLine(root, row)
    IN  IF first = <<>> THEN ""
        ELSE IF NodeAt(root, first[1]).kind # "keyword" THEN ""
        ELSE to_lowercase(NodeAt(root, first[1]).text)

MethodKindOf(keyword) ==
    CASE keyword = "send" -> "Procedure"
      [] keyword = "get" -> "Function"
      [] keyword = "set" -> "Set"

\* C16: on a line whose first leaf is the keyword Send, Get or Set in any
\* case, the classifier answers MethodReference(Procedure),
\* MethodReference(Function) or MethodReference(Set) exactly when the point
\* is strictly after the end of the keyword and lies within the identifier
\* that follows, or before the start of the next node, or no node follows;
\* otherwise (at or before the end of the keyword, or on or after a later
\* token that is no identifier) it answers None.
C16_MethodContext ==
    [][Answered("context") =>
          LET r == response'[1]
              root == RootOf(r)
              keyword == LineKeyword(root, r.position.row)
              first == FirstLeafOfLine(root, r.position.row)[1]
          IN  keyword \in {"send", "get", "set"} =>
                  r.result =
                      IF /\ PointLt(NodeAt(root, first).end, r.position)
                         /\ SlotAfter(root, first, r.position)
                      THEN Some(MethodReference(MethodKindOf(keyword)))
                      ELSE None]_vars

\* The classifier has answered MethodReference(Function) on a Get line.
C16_Witness ==
    /\ response # None
    /\ response[1].op = "context"
    /\ LineKeyword(RootOf(response[1]), response[1].position.row) = "get"
    /\ response[1].result = Some(MethodReference("Function"))

\* The nodes after the keyword Object that a header needs before its
\* class: an identifier, "is" and "a", each ending strictly before the
\* point. <<path of "a">> if they are there, <<>> if not.
HeaderBefore(root, first, point) ==
    LET name == NodeAfter(root, first)
        is == IF name = <<>> THEN <<>> ELSE NodeAfter(root, name[1])
        a == IF is = <<>> THEN <<>> ELSE NodeAfter(root, is[1])
        Ends(p) == PointLt(NodeAt(root, p).end, point)
        Keyword(p, word) == /\ NodeAt(root, p).kind = "keyword"
                            /\ to_lowercase(NodeAt(root, p).text) = word
    IN  IF /\ a # <<>>
           /\ NodeAt(root, name[1]).kind = "identifier" /\ Ends(name[1])
           /\ Keyword(is[1], "is") /\ Ends(is[1])
           /\ Keyword(a[1], "a") /\ Ends(a[1])
        THEN a ELSE <<>>

\* C17: on a line that starts with the keyword Object, the classifier
\* answers ClassReference when an identifier, "is" and "a" follow the
\* keyword and all end strictly before the point, and the point lies within
\* the identifier after them, or the next node starts after the point, or
\* no node follows; whether the object is closed and which line it is on
\* do not matter. It answers None when one of the three is missing or does
\* not end strictly before the point.
C17_ClassContext ==
    [][Answered("context") =>
          LET r == response'[1]
              root == RootOf(r)
              first == FirstLeafOfLine(root, r.position.row)[1]
              a == HeaderBefore(root, first, r.position)
          IN  LineKeyword(root, r.position.row) = "object" =>
                  r.result =
                      IF a # <<>> /\ SlotAfter(root, a[1], r.position)
                      THEN Some(ClassReference)
                      ELSE None]_vars

\* The classifier has answered ClassReference after "object o IS A" of an
\* object that is not closed and names no class yet.
C17_Witness ==
    /\ response # None
    /\ response[1].op = "context"
    /\ response[1].result = Some(ClassReference)
    /\ \A n \in LeavesOf(RootOf(response[1])) :
          n.field # "superclass" /\ n.text # "End_Object"

\* The members of a class a reference of a kind to a name stands for: its
\* methods of the kind with the name and, for Function and Set, its
\* properties with the name.
Declares(class, name, kind) ==
    {m \in Range(class.methods) :
        m.kind = kind /\ PathName(m.symbol_path) = name}
    \cup (IF kind \in {"Function", "Set"}
          THEN {q \in Range(class.properties) : PathName(q.symbol_path) = name}
          ELSE {})

\* The class the class lookup holds for a name, with its file:
\* <<[path, symbol]>>, or <<>>.
LookedUpClass(name) ==
    IF name \notin DOMAIN lookup_tables.class_lookup_table THEN <<>>
    ELSE LET f == lookup_tables.class_lookup_table[name].file_ref
             hits == IF f \in DOMAIN files
                     THEN {i \in 1..Len(files[f].symbols) :
                              files[f].symbols[i].name = name}
                     ELSE {}
         IN  IF hits = {} THEN <<>>
             ELSE <<[path |-> files[f].path,
                     symbol |-> files[f].symbols[Least(hits)]]>>

\* The first class, from a class up the superclasses the class lookup
\* knows, that declares such a member: <<[path, symbol]>>, or <<>>.
RECURSIVE FirstDeclaring(_, _, _, _)
FirstDeclaring(class, name, kind, seen) ==
    IF Declares(class.symbol, name, kind) # {} THEN <<class>>
    ELSE LET super == IF class.symbol.superclass \in seen THEN <<>>
                      ELSE LookedUpClass(class.symbol.superclass)
         IN  IF super = <<>> THEN <<>>
             ELSE FirstDeclaring(super[1], name, kind,
                                 seen \cup {class.symbol.superclass})

\* Every member of the index a reference of a kind to a name may stand for.
AllDeclared(name, kind) ==
    UNION {UNION {{[path |-> files[f].path, symbol |-> m] :
                      m \in Declares(files[f].symbols[i], name, kind)} :
                  i \in 1..Len(files[f].symbols)} :
           f \in DOMAIN files}

\* The method call around a point on the name of a Send, Get or Set:
\* <<[name, receiver, class]>> with the text of the name, of the receiver
\* ("self" if there is none) and of the class the enclosing object or class
\* definition stands for ("" if there is none), or <<>> off such a name.
CallAt(root, point) ==
    LET order == DocumentOrder[root]
        names == {i \in 1..Len(order) :
                     LET n == NodeAt(root, order[i])
                     IN  /\ n.field = "name"
                         /\ Len(order[i]) > 0
                         /\ NodeAt(root, SubSeq(order[i], 1, Len(order[i]) - 1)).kind
                                \in {"send_statement", "get_statement",
                                     "set_statement"}
                         /\ ~PointLt(point, n.start)
                         /\ ~PointLt(n.end, point)}
    IN  IF names = {} THEN <<>>
        ELSE LET at == order[Least(names)]
                 statement == NodeAt(root, SubSeq(at, 1, Len(at) - 1))
                 receivers == {statement.children[i].text :
                                  i \in {j \in 1..Len(statement.children) :
                                            statement.children[j].field = "receiver"}}
                 around == {k \in 0..(Len(at) - 1) :
                               NodeAt(root, SubSeq(at, 1, k)).kind
                                   \in {"object_definition", "class_definition"}}
                 definition == NodeAt(root, SubSeq(at, 1,
                                   CHOOSE k \in around : \A k2 \in around : k2 <= k))
                 header == definition.children[1]
                 field == IF definition.kind = "object_definition"
                          THEN "superclass" ELSE "name"
                 classes == {header.children[i].text :
                                i \in {j \in 1..Len(header.children) :
                                          header.children[j].field = field}}
             IN  <<[name |-> NodeAt(root, at).text,
                    receiver |-> IF receivers = {} THEN "self"
                                 ELSE CHOOSE t \in receivers : TRUE,
                    class |-> IF around = {} \/ classes = {} THEN ""
                              ELSE CHOOSE t \in classes : TRUE]>>

\* C18: for a reference to a method whose receiver is absent or self and
\* whose enclosing object or class stands for a class C of the index, the
\* resolver returns the one matching member declared by the first class,
\* from C up the superclasses the class lookup knows, that declares one,
\* and nothing if none of them does: no member of a class outside that
\* chain. When the receiver does not resolve to a class it returns every
\* matching member of the index, each once.
C18_MemberOfFirstDeclaringClass ==
    [][Answered("reference") =>
          LET r == response'[1]
              root == RootOf(r)
              c == context(open_files[r.uri][1].tree, r.position)
              at == CallAt(root, r.position)
          IN  (c # None /\ c # Some(ClassReference) /\ at # <<>>) =>
                  LET kind == c[1].kind
                      class == IF to_lowercase(at[1].receiver) = "self"
                               THEN LookedUpClass(at[1].class) ELSE <<>>
                      first == IF class = <<>> THEN <<>>
                               ELSE FirstDeclaring(class[1], at[1].name, kind,
                                                   {at[1].class})
                  IN  IF class = <<>>
                      THEN /\ Range(r.result) = AllDeclared(at[1].name, kind)
                           /\ Len(r.result) = Cardinality(Range(r.result))
                      ELSE IF first = <<>> THEN r.result = <<>>
                      ELSE /\ Len(r.result) = 1
                           /\ r.result[1].path = first[1].path
                           /\ r.result[1].symbol
                                  \in Declares(first[1].symbol, at[1].name,
                                               kind)]_vars

\* C19: find_definition at a point on the name of a method in a Send with no
\* receiver, inside an object whose class is in the index and declares the
\* procedure, returns one location: the file of the class and the place of
\* the declaration of the method there.
C19_DefinitionOfMethod ==
    [][Answered("definition") =>
          LET r == response'[1]
              root == RootOf(r)
              at == CallAt(root, r.position)
              class == LookedUpClass(at[1].class)
          IN  (/\ at # <<>>
               /\ LineKeyword(root, r.position.row) = "send"
               /\ at[1].receiver = "self"
               /\ class # <<>>
               /\ Declares(class[1].symbol, at[1].name, "Procedure") # {})
                  => r.result = Some([uri |-> class[1].path,
                                      declaration |-> <<at[1].class,
                                                        at[1].name>>])]_vars

\* The items a completion is to offer for the keys of a map.
ItemsFor(map, kind) == {CompletionItem(n, kind) : n \in DOMAIN map}

\* C20: code_completion returns nothing where the classifier gives no
\* context; in a ClassReference context one Class item for every key of the
\* class lookup table and no other item; in MethodReference(Procedure) one
\* Method item for every key of the procedure table and no property; in
\* MethodReference(Function) and MethodReference(Set) one Method item for
\* every key of the table of the kind and one Property item for every key
\* of the property table.
C20_CompletionItems ==
    [][Answered("completion") =>
          LET r == response'[1]
              c == context(open_files[r.uri][1].tree, r.position)
              expected ==
                  IF c = Some(ClassReference)
                  THEN ItemsFor(lookup_tables.class_lookup_table, "Class")
                  ELSE ItemsFor(lookup_tables.method_lookup_tables[c[1].kind],
                                "Method")
                       \cup (IF c[1].kind = "Procedure" THEN {}
                             ELSE ItemsFor(lookup_tables.property_lookup_table,
                                           "Property"))
          IN  IF c = None THEN r.result = None
              ELSE /\ r.result # None
                   /\ BagToSet(r.result[1]) = expected
                   /\ \A item \in expected : CopiesIn(item, r.result[1]) = 1]_vars

\* A completion after Get has offered a function and a property.
C20_Witness ==
    /\ response # None
    /\ response[1].op = "completion"
    /\ response[1].result # None
    /\ LineKeyword(RootOf(response[1]), response[1].position.row) = "get"
    /\ \E m, q \in BagToSet(response[1].result[1]) :
          m.kind = "Method" /\ q.kind = "Property"

(***************************************************************************)
(* The handlers of the server and the closure of the indexer               *)
(* (SpecHandlers).                                                         *)
(***************************************************************************)
\* A handler has run in this step.
HandlerRan == response = None /\ response' # None

\* No result, or a result with nothing in it.
AbsentOrEmpty(result) == result \in {None, Some(<<>>)}

\* C21: a didChange, semantic-tokens, definition or completion request for
\* a uri that has no open document gives an absent or empty result, leaves
\* the open documents as they are and does not end in a panic.
C21_AbsentUriAnsweredEmpty ==
    [][IF HandlerRan
       THEN LET answer == response'[1]
            IN  IF answer.op \in {"did_change", "semantic_tokens_full",
                                  "goto_definition", "completion"}
                THEN open_files[answer.uri] = None
                        => /\ ~answer.panic
                           /\ AbsentOrEmpty(answer.result)
                           /\ open_files' = open_files
                ELSE TRUE
       ELSE TRUE]_vars

\* What the queries of a document give at the start of its text.
QueriesGiveNothing(of, uri) ==
    /\ AbsentOrEmpty(semantic_tokens_full(of, uri).outcome.value)
    /\ ~semantic_tokens_full(of, uri).outcome.panic
    /\ goto_definition(of, uri, Point(0, 0), files, lookup_tables)
           = Handled(of, Returned(None))
    /\ completion(of, uri, Point(0, 0), lookup_tables)
           = Handled(of, Returned(None))

\* C22: when the parser yields no tree as a document is created or edited,
\* the handler does not panic, the document is left without a tree and
\* with a token map that holds no token, and its queries give nothing.
C22_NoTreeNoPanic ==
    [][IF HandlerRan
       THEN LET answer == response'[1]
                parsed == \/ answer.op = "did_open"
                          \/ /\ answer.op = "did_change"
                             /\ open_files[answer.uri] # None
            IN  (parsed /\ answer.parser = "none")
                   => /\ ~answer.panic
                      /\ open_files'[answer.uri] # None
                      /\ open_files'[answer.uri][1].tree = None
                      /\ open_files'[answer.uri][1].syntax_map # None
                      /\ get_all_tokens(open_files'[answer.uri][1].syntax_map[1])
                             = <<>>
                      /\ QueriesGiveNothing(open_files', answer.uri)
       ELSE TRUE]_vars

\* C23: once shutdown is acknowledged no update is committed to the index
\* and no transition is reported to the observer.
C23_ShutdownStopsIndexer ==
    [][IF response = None THEN TRUE
       ELSE response[1].op = "shutdown"
               => /\ files' = files
                  /\ lookup_tables' = lookup_tables
                  /\ notified' = notified
                  /\ observer'.state = observer.state]_vars

\* C24: a turn of the rebuild loop of the Inactive callback is taken while
\* no guard of the index is held, and the refresh is sent by the task the
\* callback spawned, after the callback has returned.
C24_RebuildOutsideIndexLock ==
    [][/\ (observer.pc = "loop" /\ observer'.visited # observer.visited)
              => index_readers = 0 /\ writer = None
       /\ (observer'.refresh = "sent" /\ observer.refresh # "sent")
              => /\ observer.refresh = "spawned"
                 /\ observer.pc = "done"
                 /\ indexer_pc = "watching"]_vars

\* The closure has logged, an open document was rebuilt in the callback
\* and the refresh has been sent.
C24_Witness ==
    /\ indexer_pc = "watching"
    /\ observer.visited # {}
    /\ observer.refresh = "sent"
    /\ \E u \in observer.visited :
          /\ open_files[u] # None
          /\ open_files[u][1].built_with = lookup_tables
          /\ lookup_tables # NewLookupTables

(***************************************************************************)
(* The index over several files, the diff and the matching of symbols      *)
(* (SpecIndex).                                                            *)
(***************************************************************************)
\* A MultiMap holds a reference to this path under the name of the path.
HasEntry(map, path) ==
    /\ PathName(path) \in DOMAIN map
    /\ \E r \in Range(map[PathName(path)]) : r.symbol_path = path

\* The class has its key in the class table.
ClassHasEntry(tables, class) ==
    class.name \in DOMAIN tables.class_lookup_table

\* The members of the class have their entries in the tables of their
\* kinds.
MembersHaveEntries(tables, class) ==
    /\ \A m \in Range(class.methods) :
          HasEntry(tables.method_lookup_tables[m.kind], m.symbol_path)
    /\ \A q \in Range(class.properties) :
          HasEntry(tables.property_lookup_table, q.symbol_path)

\* C25: after every update_file, each class, method and property declared
\* in an IndexFile of files has an entry in its lookup table, whatever the
\* other files declare.
C25_DeclaredSymbolsHaveEntries ==
    \A f \in DOMAIN files :
        \A c \in Range(files[f].symbols) :
            ClassHasEntry(lookup_tables, c)
                /\ MembersHaveEntries(lookup_tables, c)

\* At least one reference is recorded under the name.
Recorded(map, name) ==
    IF name \in DOMAIN map THEN map[name] # <<>> ELSE FALSE

\* C28: no key of a method or property multimap maps to an empty list:
\* is_known_method and the all_known listings report a name exactly when a
\* reference is recorded under it.
C28_NamesReportedIffRecorded ==
    /\ \A k \in MethodKinds :
          /\ \A n \in DOMAIN lookup_tables.method_lookup_tables[k] :
                lookup_tables.method_lookup_tables[k][n] # <<>>
          /\ all_known_methods(lookup_tables, k)
                = {n \in MemberNames :
                      Recorded(lookup_tables.method_lookup_tables[k], n)}
    /\ \A n \in DOMAIN lookup_tables.property_lookup_table :
          lookup_tables.property_lookup_table[n] # <<>>
    /\ all_known_properties(lookup_tables)
          = {n \in MemberNames :
                Recorded(lookup_tables.property_lookup_table, n)}
    /\ \A name \in MemberNames :
          is_known_method(lookup_tables, name)
              <=> \E k \in MethodKinds :
                      Recorded(lookup_tables.method_lookup_tables[k], name)

\* A bucket was emptied and its key erased: both files declared cA.foo, it
\* was then taken out of test.pkg, and the retain by path left no reference
\* under foo, though other.pkg declares it still.
C28_Witness ==
    /\ DOMAIN files = FileRefs
    /\ files["test.pkg"].symbols = <<ClassSymbol("cA", <<>>, <<>>)>>
    /\ files["other.pkg"].symbols
          = <<ClassSymbol("cA", <<MethodSymbol("cA", "foo", "Procedure")>>,
                          <<>>)>>
    /\ \A k \in MethodKinds : lookup_tables.method_lookup_tables[k] = EmptyMap
    /\ lookup_tables.property_lookup_table = EmptyMap

\* The symbols of a list: those of the top level and the members of its
\* classes.
SymbolsIn(symbols) ==
    Range(symbols)
    \cup UNION {Range(c.methods) \cup Range(c.properties) :
                   c \in {x \in Range(symbols) : x.variant = "Class"}}

\* The same variant, and the same class name or the same symbol path.
SameVariantSamePath(a, b) ==
    /\ a.variant = b.variant
    /\ IF a.variant = "Class" THEN a.name = b.name
       ELSE a.symbol_path = b.symbol_path

\* The symbols of a list with no shallow match in another list.
Unmatched(symbols, others) ==
    {s \in Range(symbols) :
        \A o \in Range(others) : ~SameVariantSamePath(o, s)}

\* The pairs of classes of the two lists that match.
MatchedClasses(old_symbols, new_symbols) ==
    {pair \in Range(old_symbols) \X Range(new_symbols) :
        /\ pair[1].variant = "Class"
        /\ SameVariantSamePath(pair[1], pair[2])}

\* What a diff is to report as added: the unmatched symbols of the new
\* list and, for each class matched, the unmatched members of the new
\* class.
ExpectedAdded(old_symbols, new_symbols) ==
    Unmatched(new_symbols, old_symbols)
    \cup UNION {Unmatched(pair[2].methods, pair[1].methods)
                \cup Unmatched(pair[2].properties, pair[1].properties) :
                   pair \in MatchedClasses(old_symbols, new_symbols)}

\* What it is to report as removed.
ExpectedRemoved(old_symbols, new_symbols) ==
    ExpectedAdded(new_symbols, old_symbols)

\* Each element of the set once, and nothing else.
ListsExactly(list, set) ==
    Range(list) = set /\ Len(list) = Cardinality(set)

DiffIsExact(old_symbols, new_symbols) ==
    LET symbols_diff == diff_symbols(old_symbols, new_symbols)
    IN  /\ ListsExactly(symbols_diff.added_symbols,
                        ExpectedAdded(old_symbols, new_symbols))
        /\ ListsExactly(symbols_diff.removed_symbols,
                        ExpectedRemoved(old_symbols, new_symbols))

\* C26: the diff update_file takes of the old and the new symbols of a
\* file reports as added exactly the new symbols without a shallow match
\* among the old ones of their scope, and as removed exactly the old ones
\* without a shallow match among the new; a list diffed against itself
\* gives neither.
C26_DiffReportsExactly ==
    [][\A f \in DOMAIN files :
          /\ DiffIsExact(files[f].symbols, files'[f].symbols)
          /\ diff_symbols(files'[f].symbols, files'[f].symbols)
                = [added_symbols |-> <<>>, removed_symbols |-> <<>>]]_vars

\* C27: is_matching holds of two symbols exactly when they are of the same
\* variant and have the same class name or the same symbol path, whatever
\* the members of a class.
C27_MatchingIsShallow ==
    [][\A f \in DOMAIN files :
          \A a \in SymbolsIn(files[f].symbols),
             b \in SymbolsIn(files'[f].symbols) :
              is_matching(a, b) <=> SameVariantSamePath(a, b)]_vars

(***************************************************************************)
(* The edits notified to the tree and the lines of the line map (SpecDoc,  *)
(* SpecLineMap).                                                           *)
(***************************************************************************)
\* The turn of the loop of edit_content taken in this step, if it is one
\* for a change with a range of the text of the document that is notified
\* to a tree.
NotifiesEdit ==
    /\ pc = "edit"
    /\ pending # <<>>
    /\ pending' = RestChanges(pending)
    /\ ~panicked
    /\ ~panicked'
    /\ tree # None
    /\ NextChange(pending).range # None
    /\ NextChange(pending).range[1].start
           \in InRangePoints(LineMapText(lines))
    /\ NextChange(pending).range[1].end \in InRangePoints(LineMapText(lines))
    /\ PointLeq(NextChange(pending).range[1].start,
                NextChange(pending).range[1].end)

\* The InputEdit the claim describes for a change of a text.
ExpectedInputEdit(text, change) ==
    LET rows == ClientRows(text)
        start == change.range[1].start
        end == change.range[1].end
    IN  [start_byte |-> ClientOffset(rows, start),
         old_end_byte |-> ClientOffset(rows, end),
         new_end_byte |-> ClientOffset(rows, start) + Len(change.text),
         start_position |-> start,
         old_end_position |-> end,
         new_end_position |-> AdvancePoint(start, change.text)]

\* C29: the edit notified to the tree for a ranged change has the byte
\* offsets of the start and the end of the range in the text before the
\* change, new_end_byte = start_byte + the length of the inserted text, and
\* as new_end_position the row and column where the inserted text ends.
C29_InputEditOfChange ==
    [][NotifiesEdit
          => /\ tree' # None
             /\ tree'[1].input_edits # <<>>
             /\ Last(tree'[1].input_edits)
                    = ExpectedInputEdit(LineMapText(lines),
                                        NextChange(pending))]_vars

\* Every line but the last ends with a line feed, and no line holds one
\* before its last byte.
LinesWellFormed(ls) ==
    \A i \in 1..Len(ls) :
        /\ i < Len(ls) => has_line_ending(ls[i])
        /\ \A j \in 1..(Len(ls[i]) - 1) : ls[i][j] # NL

\* C30: after any sequence of replace_range calls that returned, the lines
\* are in canonical form: well formed, and the very lines LineMap::new
\* builds from their text.
C30_LinesCanonical ==
    ~panicked => /\ LinesWellFormed(lines)
                 /\ lines = LineMapNew(LineMapText(lines))

\* The token lines of the document as its last build left them.
BuiltLines == generate_lines_indexed(committed[1].lines, committed[1].tree)

\* The captures the last build went over.
BuiltCaptures == WordCaptures(committed[1].tree[1].bytes, 1)

\* The tokens of the captures that start on a row, one after another.
RECURSIVE TokensOfRow(_, _, _)
TokensOfRow(captures, row, prev_pos) ==
    IF captures = <<>> THEN <<>>
    ELSE LET node == Head(captures).node
         IN  IF node.start.row = row
             THEN <<SyntaxToken(node.start, node.end, prev_pos, 0)>>
                      \o TokensOfRow(Tail(captures), row, node.start)
             ELSE TokensOfRow(Tail(captures), row, node.start)

\* A document whose map has just been built: by DataFlexDocument::new or
\* at the end of edit_content.
MapBuilt == pc = "idle" /\ tree # None /\ committed = Some(Snapshot(lines, tree, syntax_map))

Cursors(root) ==
    {[root |-> root, cursor |-> cursor] : cursor \in Range(DocumentOrder[root])}

\* The keywords and kinds the helpers are asked with.
CursorKeywords == {"object", "send", "get", "set", "is", "a"}
EnclosingKinds == {{"send_statement", "get_statement", "set_statement"},
                   {"object_definition", "class_definition"}}

\* A helper that answered false has left the cursor where it was.
FalseLeavesCursor(outcome, cursor) == ~outcome.ok => outcome.cursor = cursor

\* C32: goto_next_node, goto_next_node_if in its identifier and keyword
\* forms and goto_enclosing_node_kind leave the cursor on the node it stood
\* on whenever they return false: from every node of the document the
\* classifier has answered for, with the position it was asked about.
C32_FalseLeavesCursor ==
    [][Answered("context") =>
          LET position == response'[1].position
          IN  \A c \in Cursors(RootOf(response'[1])) :
                  /\ FalseLeavesCursor(goto_next_node(c.root, c.cursor),
                                       c.cursor)
                  /\ \A kinds \in EnclosingKinds :
                         FalseLeavesCursor(
                             goto_enclosing_node_kind(c.root, c.cursor, kinds),
                             c.cursor)
                  /\ FalseLeavesCursor(
                         goto_next_identifier_before_position(
                             c.root, c.cursor, position),
                         c.cursor)
                  /\ FalseLeavesCursor(
                         goto_next_identifier_enclosing_position(
                             c.root, c.cursor, position),
                         c.cursor)
                  /\ \A keyword \in CursorKeywords :
                         FalseLeavesCursor(
                             goto_next_keyword_before_position(
                                 c.root, c.cursor, keyword, position),
                             c.cursor)]_vars

\* The classifier has answered for a document in which, from a node below
\* the root, goto_next_node finds no node after walking up, a predicate
\* form rejects the node goto_next_node moved to, and no ancestor is of the
\* kinds looked for.
C32_Witness ==
    /\ response # None
    /\ response[1].op = "context"
    /\ \E c \in Cursors(RootOf(response[1])) :
           /\ Len(c.cursor) > 1
           /\ ~goto_next_node(c.root, c.cursor).ok
    /\ \E c \in Cursors(RootOf(response[1])) :
           /\ Len(c.cursor) > 0
           /\ goto_next_node(c.root, c.cursor).ok
           /\ ~goto_next_identifier_before_position(c.root, c.cursor,
                                                    response[1].position).ok
    /\ \E c \in Cursors(RootOf(response[1])) :
           /\ Len(c.cursor) > 1
           /\ ~goto_enclosing_node_kind(c.root, c.cursor,
                   {"send_statement", "get_statement", "set_statement"}).ok

\* The report of Inactive has been dealt with, loop and all, and no
\* did_open is under way.
IndexingAndOpeningDone ==
    /\ observer.state = "Inactive"
    /\ observer.pc = "done"
    /\ opening = None

\* C33: when a document is opened while the initial indexing ends, in
\* whatever order did_open, the last commits of the tasks and the report of
\* Inactive fall, once did_open has returned and the report is dealt with
\* the document holds the token map generated against the lookup tables as
\* the initial indexing left them.
C33_OpenedDocBuiltWithFinalTables ==
    IndexingAndOpeningDone =>
        \A u \in OpenUrls(open_files) :
            open_files[u][1].syntax_map =
                Some(generate_lines(open_files[u][1].tree[1],
                                    open_files[u][1].line_count,
                                    lookup_tables))


\* C34: a query thread never waits for the lock of the index while it holds
\* a read guard of the index itself, so that a completion in a Function or
\* Set method context comes to its end even when a task of the indexer asks
\* for the write guard in the middle of it.
C34_NeverWaitsHoldingGuard ==
    ~(/\ index_readers > 0
      /\ \/ CompletionAt("methods_waits")
         \/ CompletionAt("properties_waits"))


\* C35: replace_range comes to its end without an access out of bounds for
\* every start <= end in the range of the text, the end of the document (the
\* row after a last line feed, column 0) and the insertion of a text with a
\* line feed into the last line included.
C35_ReplaceRangeCompletes ==
    [][edits' = edits + 1 /\ edits = 0 => ~panicked']_vars


\* Two symbols of the list have one name.
HoldsSameNames(symbols) ==
    \E i, j \in 1..Len(symbols) :
        i # j /\ SymbolNameOf(symbols[i]) = SymbolNameOf(symbols[j])

\* Each symbol of the old list that the new list lacks is reported as
\* removed, and each one the new list holds as well is reported neither as
\* added nor as removed.
DiffedApart(old_symbols, new_symbols) ==
    LET symbols_diff == diff_symbols(old_symbols, new_symbols)
    IN  \A s \in Range(old_symbols) :
            IF s \in Range(new_symbols)
            THEN /\ s \notin Range(symbols_diff.added_symbols)
                 /\ s \notin Range(symbols_diff.removed_symbols)
            ELSE s \in Range(symbols_diff.removed_symbols)

\* C36: when the old list of a scope holds two symbols of one name, a
\* Procedure and a Function of a class say, the diff update_file takes
\* deals with each on its own: the one the new list lacks is among the
\* removed, the one the new list holds unchanged is neither among the added
\* nor among the removed.
C36_SameNamesDiffedApart ==
    [][\A f \in DOMAIN files :
          \A old_class \in Range(files[f].symbols),
             new_class \in Range(files'[f].symbols) :
              (/\ is_matching(old_class, new_class)
               /\ HoldsSameNames(old_class.methods))
                  => DiffedApart(old_class.methods, new_class.methods)]_vars


====
